---- MODULE Spec2Model ----
(***************************************************************************)
(* A model of the kubecomply agent: the result model (findings, summary,   *)
(* threshold filter), the scanner orchestrator with its three analyzers,   *)
(* the ComplianceScan reconciliation loop with result delivery, and the    *)
(* policy engine's module table under concurrent use.                      *)
(*                                                                         *)
(* The specifications share the variables:                                 *)
(*   SpecResult     ComputeSummary / FilterByThreshold on a finding list   *)
(*   Spec           Scanner.Run over a small cluster                       *)
(*   SpecReconcile  ComplianceScanReconciler.Reconcile on one scan object  *)
(*   FairReconcile  the same, with the work queue's fairness               *)
(*   SpecEngine     goroutines evaluating and loading on one policy Engine *)
(*   SpecChecks     single checks of the RBAC and network analyzers        *)
(***************************************************************************)
EXTENDS Integers, Sequences, FiniteSets, TLC

VARIABLES
    recv,       \* result model: the receiver ScanResult [Findings, Summary, summarized]
    filt,       \* result model: the ScanResult returned by FilterByThreshold
    filt2,      \* result model: FilterByThreshold applied again to filt
    world,      \* scanner: the cluster the accessor reads, with the calls that fail
    registered, \* scanner: Scanner.analyzers, the names registered
    engine,     \* scanner: the policy evaluator [nil, modules]; modules is its module table
    run,        \* scanner: what the last Scanner.Run returned, with its call trace
    scan,       \* reconciler: the persisted ComplianceScan object
    queued,     \* reconciler: the object's key is in the work queue
    last,       \* reconciler: what the last Reconcile did (history)
    flip,       \* reconciler: toggles at every Reconcile (history)
    saas,       \* reconciler: SaaSClient [nil, token]
    mu,         \* shared engine: Engine.mu [readers, writer, draining]
    pc,         \* shared engine: where each goroutine is in Evaluate or in a load
    table,      \* shared engine: Engine.modules, the names of the modules loaded
    calls,      \* shared engine: each goroutine's call: its argument, snapshot, result
    args,       \* analyzer checks: the objects one check is given
    ret         \* analyzer checks: the findings the check returned

resultVars == <<recv, filt, filt2>>
runVars == <<world, registered, engine, run>>
recVars == <<scan, queued, last, flip, saas>>
engineVars == <<mu, pc, table, calls>>
checkVars == <<args, ret>>
vars == <<recv, filt, filt2, world, registered, engine, run, scan, queued, last, flip, saas,
          mu, pc, table, calls, args, ret>>

(***************************************************************************)
(* Bounds of the model.                                                    *)
(***************************************************************************)
MaxFindings == 2
ScoreScale == 100
MaxSubjects == 2
MaxBindings == 2
MaxRules == 2
MaxNamespaces == 4
MaxPolicies == 1
MaxContainers == 2
MaxViolations == 2

(***************************************************************************)
(* Result model                                                            *)
(***************************************************************************)
Severities == {"critical", "high", "medium", "low", "info"}

Statuses == {"PASS", "FAIL", "WARNING", "ERROR", "SKIPPED"}

\* A severity string outside the five constants ranks 0.
SeverityRank(s) ==
    CASE s = "critical" -> 5
      [] s = "high" -> 4
      [] s = "medium" -> 3
      [] s = "low" -> 2
      [] s = "info" -> 1
      [] OTHER -> 0

MeetsThresholdStrict(s, threshold) == SeverityRank(s) > SeverityRank(threshold)

MeetsThreshold(s, threshold) == SeverityRank(s) >= SeverityRank(threshold)

\* Finding: the fields the checks and the orchestrator read or write.
\* ts = 0 is the zero time.Time.
Finding(id, sev, status, cat, res, ns, det, ts) ==
    [id |-> id, sev |-> sev, status |-> status, cat |-> cat,
     res |-> res, ns |-> ns, det |-> det, ts |-> ts]

\* The severities a FindingsBySeverity map can be keyed by in the model.
SevKeys == Severities \cup {""}

ZeroSummary ==
    [TotalChecks |-> 0, PassedChecks |-> 0, FailedChecks |-> 0,
     WarningCount |-> 0, ErrorCount |-> 0, SkippedCount |-> 0, Score |-> 0,
     FindingsBySeverity |-> [k \in SevKeys |-> 0]]

\* The switch of ComputeSummary's loop, had it counted warnings as failures.
CounterOfWarnFails(status) ==
    CASE status = "PASS" -> "PassedChecks"
      [] status = "FAIL" -> "FailedChecks"
      [] status = "WARNING" -> "FailedChecks"
      [] status = "ERROR" -> "ErrorCount"
      [] status = "SKIPPED" -> "SkippedCount"
      [] OTHER -> "none"

\* The switch of ComputeSummary's loop: the counter a finding's status bumps.
\* TotalChecks is bumped for every finding.
CounterOf(status) ==
    CASE status = "PASS" -> "PassedChecks"
      [] status = "FAIL" -> "FailedChecks"
      [] status = "WARNING" -> "WarningCount"
      [] status = "ERROR" -> "ErrorCount"
      [] status = "SKIPPED" -> "SkippedCount"
      [] OTHER -> "none"

\* The cases of the switch that also bump FindingsBySeverity[f.Severity].
BumpSeverity(status) == status \in {"FAIL", "WARNING"}

\* What the loop leaves in one counter: the number of findings that bump it.
Count(findings, counter) ==
    Cardinality({i \in 1..Len(findings) : CounterOf(findings[i].status) = counter})

\* ComputeSummary's loop over all findings, counter by counter.
SummaryLoop(findings) ==
    [TotalChecks |-> Len(findings),
     PassedChecks |-> Count(findings, "PassedChecks"),
     FailedChecks |-> Count(findings, "FailedChecks"),
     WarningCount |-> Count(findings, "WarningCount"),
     ErrorCount |-> Count(findings, "ErrorCount"),
     SkippedCount |-> Count(findings, "SkippedCount"),
     Score |-> 0,
     FindingsBySeverity |->
        [k \in SevKeys |->
            Cardinality({i \in 1..Len(findings) :
                BumpSeverity(findings[i].status) /\ findings[i].sev = k})]]

\* float64(passed) / float64(actionable) * 100.0, kept at a resolution of
\* 1/ScoreScale of a percent.
ScoreOf(passed, actionable) == (passed * 100 * ScoreScale) \div actionable

ComputeSummary(findings) ==
    LET s == SummaryLoop(findings)
        actionable == s.PassedChecks + s.FailedChecks
    IN  IF actionable > 0
        THEN [s EXCEPT !.Score = ScoreOf(s.PassedChecks, actionable)]
        ELSE s

\* The condition under which FilterByThreshold's loop keeps a finding.
Kept(f, threshold) == f.status = "PASS" \/ MeetsThreshold(f.sev, threshold)

FilterLoop(findings, threshold) ==
    SelectSeq(findings, LAMBDA f : Kept(f, threshold))

\* FilterByThreshold builds a new ScanResult; the receiver r is only read.
\* The pair is the receiver after the call and the result returned.
FilterByThreshold(r, threshold) ==
    LET kept == FilterLoop(r.Findings, threshold) IN
    [receiver |-> r,
     filtered |-> [Findings |-> kept, Summary |-> ComputeSummary(kept)]]

(***************************************************************************)
(* The cluster read through the accessor (k8s.Client)                      *)
(***************************************************************************)
SystemNamespaces == {"kube-system", "kube-public", "kube-node-lease"}

\* A listing call <<kind, namespace>> fails when it is in w.fails; cluster-wide
\* listings have namespace "".
Fails(w, kind, ns) == <<kind, ns>> \in w.fails

\* The elements of a sequence.
Range(seq) == {seq[i] : i \in 1..Len(seq)}

\* The sequences over S of length at most n.
BoundedSeq(S, n) == UNION {[1..k -> S] : k \in 0..n}

\* F applied to the value of v, with v computed once.
Let(v, F(_)) == CHOOSE r \in {F(x) : x \in {v}} : TRUE

\* The concatenation of the sequences ss[1], ..., ss[n], in order.
RECURSIVE FlattenFrom(_, _)
FlattenFrom(ss, i) == IF i > Len(ss) THEN <<>> ELSE ss[i] \o FlattenFrom(ss, i + 1)

Flatten(ss) == Let(ss \o <<>>, LAMBDA t : FlattenFrom(t, 1))

Reverse(s) == [i \in 1..Len(s) |-> s[Len(s) + 1 - i]]

\* Membership in a Go slice.
Contains(s, x) == \E i \in 1..Len(s) : s[i] = x

\* The names of the model that start with "system:".
SystemPrefixedNames == {"system:masters", "system:node", "system:controller"}

\* strings.HasPrefix(name, "system:"), had it matched no name.
HasSystemPrefixNever(name) == FALSE

\* strings.HasPrefix(name, "system:")
HasSystemPrefix(name) == name \in SystemPrefixedNames

\* Go leaves the iteration order of a map unspecified; the model takes the
\* keys in slice order or in reverse, as w.order says.
MapOrder(w, keys) == IF w.order = "fwd" THEN keys ELSE Reverse(keys)

\* NamespacesForScan with includeSystem = false.
NamespacesForScan(w, requested) ==
    IF Len(requested) > 0
    THEN [err |-> FALSE, namespaces |-> requested]
    ELSE IF Fails(w, "namespaces", "")
         THEN [err |-> TRUE, namespaces |-> <<>>]
         ELSE [err |-> FALSE,
               namespaces |-> SelectSeq(w.nsList, LAMBDA n : n \notin SystemNamespaces)]

(***************************************************************************)
(* RBAC analyzer                                                           *)
(***************************************************************************)
NowTs == 1

RbacFinding(id, sev, status, res, ns, det) ==
    Finding(id, sev, status, "rbac", res, ns, det, NowTs)

ClusterAdminOfBinding(b) ==
    IF b.roleRef.name # "cluster-admin" \/ HasSystemPrefix(b.name)
    THEN <<>>
    ELSE [i \in 1..Len(b.subjects) |->
            RbacFinding("RBAC-001", "critical", "FAIL",
                        <<"ClusterRoleBinding", b.name>>, "", b.subjects[i].name)]

checkClusterAdminBindings(bindings) ==
    LET found == Flatten([i \in 1..Len(bindings) |-> ClusterAdminOfBinding(bindings[i])])
    IN  IF Len(found) = 0
        THEN <<RbacFinding("RBAC-001", "critical", "PASS", <<>>, "", "")>>
        ELSE found

hasWildcard(items) == Contains(items, "*")

\* The first matching rule yields the role's finding and ends the loop.
WildcardOfClusterRole(cr) ==
    IF HasSystemPrefix(cr.name) THEN <<>>
    ELSE IF \E i \in 1..Len(cr.rules) :
               \/ hasWildcard(cr.rules[i].verbs)
               \/ hasWildcard(cr.rules[i].resources)
               \/ hasWildcard(cr.rules[i].apiGroups)
         THEN <<RbacFinding("RBAC-002", "high", "FAIL", <<"ClusterRole", cr.name>>, "", "")>>
         ELSE <<>>

WildcardOfRole(r) ==
    IF HasSystemPrefix(r.name) THEN <<>>
    ELSE IF \E i \in 1..Len(r.rules) :
               hasWildcard(r.rules[i].verbs) \/ hasWildcard(r.rules[i].resources)
         THEN <<RbacFinding("RBAC-002", "high", "FAIL", <<"Role", r.ns, r.name>>, r.ns, "")>>
         ELSE <<>>

checkWildcardPermissions(clusterRoles, roles) ==
    Flatten([i \in 1..Len(clusterRoles) |-> WildcardOfClusterRole(clusterRoles[i])])
    \o Flatten([i \in 1..Len(roles) |-> WildcardOfRole(roles[i])])

checkUnusedRoles(clusterRoles, clusterRoleBindings, roles, roleBindings) ==
    LET boundClusterRoles ==
            {clusterRoleBindings[i].roleRef.name : i \in
                {j \in 1..Len(clusterRoleBindings) :
                    clusterRoleBindings[j].roleRef.kind = "ClusterRole"}}
            \cup {roleBindings[i].roleRef.name : i \in
                {j \in 1..Len(roleBindings) : roleBindings[j].roleRef.kind = "ClusterRole"}}
        boundRoles ==
            {<<roleBindings[i].ns, roleBindings[i].roleRef.name>> : i \in
                {j \in 1..Len(roleBindings) : roleBindings[j].roleRef.kind = "Role"}}
        OfClusterRole(cr) ==
            IF HasSystemPrefix(cr.name) \/ cr.name \in boundClusterRoles THEN <<>>
            ELSE <<RbacFinding("RBAC-003", "low", "WARNING", <<"ClusterRole", cr.name>>, "", "")>>
        OfRole(r) ==
            IF HasSystemPrefix(r.name) \/ <<r.ns, r.name>> \in boundRoles THEN <<>>
            ELSE <<RbacFinding("RBAC-003", "low", "WARNING", <<"Role", r.ns, r.name>>, r.ns, "")>>
    IN  Flatten([i \in 1..Len(clusterRoles) |-> OfClusterRole(clusterRoles[i])])
        \o Flatten([i \in 1..Len(roles) |-> OfRole(roles[i])])

checkStaleServiceAccounts(clusterRoleBindings, roleBindings) ==
    LET IsDefaultSA(s) == s.kind = "ServiceAccount" /\ s.name = "default"
        OfCRB(b) ==
            Flatten([i \in 1..Len(b.subjects) |->
                IF IsDefaultSA(b.subjects[i])
                THEN <<RbacFinding("RBAC-004", "medium", "FAIL",
                                   <<"ClusterRoleBinding", b.name>>, b.subjects[i].ns, "")>>
                ELSE <<>>])
        OfRB(b) ==
            Flatten([i \in 1..Len(b.subjects) |->
                IF IsDefaultSA(b.subjects[i])
                THEN <<RbacFinding("RBAC-004", "medium", "FAIL",
                                   <<"RoleBinding", b.ns, b.name>>, b.ns, "")>>
                ELSE <<>>])
    IN  Flatten([i \in 1..Len(clusterRoleBindings) |-> OfCRB(clusterRoleBindings[i])])
        \o Flatten([i \in 1..Len(roleBindings) |-> OfRB(roleBindings[i])])

SensitiveResources == {"clusterroles", "clusterrolebindings", "roles", "rolebindings"}

EscalatingVerbs == {"create", "update", "patch", "*"}

canEscalate(rule) ==
    /\ \E i \in 1..Len(rule.resources) :
           rule.resources[i] \in SensitiveResources \/ rule.resources[i] = "*"
    /\ \E i \in 1..Len(rule.verbs) : rule.verbs[i] \in EscalatingVerbs

checkPrivilegeEscalation(clusterRoles, roles) ==
    LET OfClusterRole(cr) ==
            IF HasSystemPrefix(cr.name) \/ cr.name \in {"cluster-admin", "admin", "edit"}
            THEN <<>>
            ELSE IF \E i \in 1..Len(cr.rules) : canEscalate(cr.rules[i])
                 THEN <<RbacFinding("RBAC-005", "high", "FAIL",
                                    <<"ClusterRole", cr.name>>, "", "")>>
                 ELSE <<>>
        OfRole(r) ==
            IF HasSystemPrefix(r.name) THEN <<>>
            ELSE IF \E i \in 1..Len(r.rules) : canEscalate(r.rules[i])
                 THEN <<RbacFinding("RBAC-005", "high", "FAIL",
                                    <<"Role", r.ns, r.name>>, r.ns, "")>>
                 ELSE <<>>
    IN  Flatten([i \in 1..Len(clusterRoles) |-> OfClusterRole(clusterRoles[i])])
        \o Flatten([i \in 1..Len(roles) |-> OfRole(roles[i])])

\* The collection loop of Analyze: a failed ListRoles skips the namespace; a
\* failed ListRoleBindings comes after the namespace's roles were appended.
RbacCollectRoles(w, namespaces) ==
    Flatten([i \in 1..Len(namespaces) |->
        IF Fails(w, "roles", namespaces[i]) THEN <<>>
        ELSE w.content[namespaces[i]].roles])

RbacCollectBindings(w, namespaces) ==
    Flatten([i \in 1..Len(namespaces) |->
        IF Fails(w, "roles", namespaces[i]) \/ Fails(w, "rolebindings", namespaces[i])
        THEN <<>>
        ELSE w.content[namespaces[i]].roleBindings])

RbacAnalyze(w, namespaces) ==
    IF Fails(w, "clusterroles", "") \/ Fails(w, "clusterrolebindings", "")
    THEN [err |-> TRUE, findings |-> <<>>]
    ELSE LET allRoles == RbacCollectRoles(w, namespaces)
             allRoleBindings == RbacCollectBindings(w, namespaces)
         IN  [err |-> FALSE,
              findings |->
                  checkClusterAdminBindings(w.clusterRoleBindings)
                  \o checkWildcardPermissions(w.clusterRoles, allRoles)
                  \o checkUnusedRoles(w.clusterRoles, w.clusterRoleBindings,
                                      allRoles, allRoleBindings)
                  \o checkStaleServiceAccounts(w.clusterRoleBindings, allRoleBindings)
                  \o checkPrivilegeEscalation(w.clusterRoles, allRoles)]

(***************************************************************************)
(* Network analyzer                                                        *)
(***************************************************************************)
NetFinding(id, sev, status, res, ns) ==
    Finding(id, sev, status, "network", res, ns, "", NowTs)

RECURSIVE Dedup(_)
Dedup(s) ==
    IF s = <<>> THEN <<>>
    ELSE LET rest == Dedup(Tail(s)) IN
         IF Contains(rest, Head(s)) THEN rest ELSE <<Head(s)>> \o rest

\* The keys of scanNS, in the order the map is iterated.
ScanNS(w, namespaces) ==
    MapOrder(w, IF Len(namespaces) > 0 THEN Dedup(namespaces) ELSE w.nsList)

\* nsPolicies has a key only for a namespace whose listing succeeded.
PolicyKeys(w, scanNS) ==
    SelectSeq(scanNS, LAMBDA n : ~Fails(w, "networkpolicies", n))

\* nsPolicies[ns]: a missing key reads as the nil slice.
PoliciesOf(w, ns) ==
    IF Fails(w, "networkpolicies", ns) THEN <<>> ELSE w.content[ns].policies

CoverageKeys(w, scanNS) ==
    SelectSeq(scanNS, LAMBDA n : n \notin SystemNamespaces)

checkNamespaceCoverage(w, scanNS) ==
    LET user == CoverageKeys(w, scanNS)
        totalCount == Len(user)
        coveredCount == Len(SelectSeq(user, LAMBDA n : Len(PoliciesOf(w, n)) # 0))
        missing ==
            Flatten([i \in 1..Len(user) |->
                IF Len(PoliciesOf(w, user[i])) = 0
                THEN <<NetFinding("NET-001", "high", "FAIL",
                                  <<"Namespace", user[i]>>, user[i])>>
                ELSE <<>>])
        \* coveragePct < 50 and coveragePct < 100, on covered/total*100
        \* Details: the covered and total counts the percentage is made of
        Overall(sev, status) ==
            <<Finding("NET-002", sev, status, "network", <<>>, "",
                      <<coveredCount, totalCount>>, NowTs)>>
        overall ==
            IF totalCount > 0
            THEN IF coveredCount * 100 < 50 * totalCount
                 THEN Overall("high", "FAIL")
                 ELSE IF coveredCount < totalCount
                      THEN Overall("medium", "WARNING")
                      ELSE Overall("info", "PASS")
            ELSE <<>>
    IN  missing \o overall

\* len() of a rule list, had an empty list counted as a rule.
RuleLenPresent(field) == IF field = "absent" THEN 0 ELSE 1

\* len() of a nil and of an empty rule list are both 0.
RuleLen(field) == IF field = "rules" THEN 1 ELSE 0

analyzeNamespacePolicies(policies) ==
    LET Has(pt) == \E i \in 1..Len(policies) : Contains(policies[i].policyTypes, pt)
    IN  [policyCount |-> Len(policies),
         hasIngress |-> Has("Ingress"),
         hasEgress |-> Has("Egress"),
         defaultDenyIngr |->
             \E i \in 1..Len(policies) :
                 /\ policies[i].selectAll
                 /\ Contains(policies[i].policyTypes, "Ingress")
                 /\ RuleLen(policies[i].ingress) = 0,
         defaultDenyEgr |->
             \E i \in 1..Len(policies) :
                 /\ policies[i].selectAll
                 /\ Contains(policies[i].policyTypes, "Egress")
                 /\ RuleLen(policies[i].egress) = 0]

checkDefaultDenyPolicies(w, keys) ==
    Flatten([i \in 1..Len(keys) |->
        LET ns == keys[i]
            policies == PoliciesOf(w, ns)
            info == analyzeNamespacePolicies(policies)
        IN  IF Len(policies) = 0 THEN <<>>
            ELSE (IF ~info.defaultDenyIngr
                  THEN <<NetFinding("NET-003", "medium", "FAIL", <<"Namespace", ns>>, ns)>>
                  ELSE <<>>)
                 \o (IF ~info.defaultDenyEgr
                     THEN <<NetFinding("NET-004", "medium", "WARNING", <<"Namespace", ns>>, ns)>>
                     ELSE <<>>)])

checkIngressEgressCoverage(w, keys) ==
    Flatten([i \in 1..Len(keys) |->
        LET ns == keys[i]
            policies == PoliciesOf(w, ns)
            info == analyzeNamespacePolicies(policies)
        IN  IF Len(policies) # 0 /\ info.hasIngress /\ ~info.hasEgress
            THEN <<NetFinding("NET-005", "low", "WARNING", <<"Namespace", ns>>, ns)>>
            ELSE <<>>])

ExposureOfService(svc) ==
    CASE svc.type = "NodePort" ->
            [i \in 1..Len(svc.ports) |->
                NetFinding("NET-006", "medium", "WARNING",
                           <<"Service", svc.ns, svc.name>>, svc.ns)]
      [] svc.type = "LoadBalancer" ->
            <<NetFinding("NET-007", "low", "WARNING", <<"Service", svc.ns, svc.name>>, svc.ns)>>
      [] OTHER -> <<>>

checkExposedServices(w, scanNS) ==
    Flatten([i \in 1..Len(scanNS) |->
        IF Fails(w, "services", scanNS[i]) THEN <<>>
        ELSE LET services == w.content[scanNS[i]].services IN
             Flatten([j \in 1..Len(services) |-> ExposureOfService(services[j])])])

NetworkAnalyze(w, namespaces) ==
    IF Fails(w, "namespaces", "")
    THEN [err |-> TRUE, findings |-> <<>>]
    ELSE LET scanNS == ScanNS(w, namespaces)
             keys == PolicyKeys(w, scanNS)
         IN  [err |-> FALSE,
              findings |->
                  checkNamespaceCoverage(w, scanNS)
                  \o checkDefaultDenyPolicies(w, keys)
                  \o checkIngressEgressCoverage(w, keys)
                  \o checkExposedServices(w, scanNS)]

(***************************************************************************)
(* PSS checker                                                             *)
(***************************************************************************)
PssFinding(id, sev, status, res, ns, det) ==
    Finding(id, sev, status, "pss", res, ns, det, NowTs)

\* An ephemeral container is copied field by field into a Container.
EphemeralAsContainer(ec) ==
    [name |-> ec.name, sc |-> ec.sc, privileged |-> ec.privileged, ape |-> ec.ape,
     rorfs |-> ec.rorfs, runAsNonRoot |-> ec.runAsNonRoot, runAsUser |-> ec.runAsUser,
     seccomp |-> ec.seccomp, caps |-> ec.caps, capAdd |-> ec.capAdd,
     capDrop |-> ec.capDrop, procMount |-> ec.procMount, hostPorts |-> ec.hostPorts]

\* allContainers, had it left the ephemeral containers out.
allContainersNoEphemeral(spec) == spec.init \o spec.containers

allContainers(spec) ==
    spec.init \o spec.containers
    \o [i \in 1..Len(spec.ephemeral) |-> EphemeralAsContainer(spec.ephemeral[i])]

\* One finding of rule id for every container of the spec that Violates.
PerContainer(spec, Violates(_), id, sev, status, res, ns) ==
    LET cs == allContainers(spec) IN
    Flatten([i \in 1..Len(cs) |->
        IF Violates(cs[i]) THEN <<PssFinding(id, sev, status, res, ns, cs[i].name)>>
        ELSE <<>>])

checkPrivileged(spec, res, ns) ==
    PerContainer(spec, LAMBDA c : c.sc /\ c.privileged = "true",
                 "PSS-B001", "critical", "FAIL", res, ns)

checkHostNamespaces(spec, res, ns) ==
    (IF spec.hostNetwork THEN <<PssFinding("PSS-B002", "high", "FAIL", res, ns, "")>> ELSE <<>>)
    \o (IF spec.hostPID THEN <<PssFinding("PSS-B003", "high", "FAIL", res, ns, "")>> ELSE <<>>)
    \o (IF spec.hostIPC THEN <<PssFinding("PSS-B004", "high", "FAIL", res, ns, "")>> ELSE <<>>)

checkHostPorts(spec, res, ns) ==
    LET cs == allContainers(spec) IN
    Flatten([i \in 1..Len(cs) |->
        Flatten([j \in 1..Len(cs[i].hostPorts) |->
            IF cs[i].hostPorts[j] # 0
            THEN <<PssFinding("PSS-B005", "medium", "FAIL", res, ns, cs[i].name)>>
            ELSE <<>>])])

SafeCapabilities ==
    {"AUDIT_WRITE", "CHOWN", "DAC_OVERRIDE", "FOWNER", "FSETID", "KILL", "MKNOD",
     "NET_BIND_SERVICE", "SETFCAP", "SETGID", "SETPCAP", "SETUID", "SYS_CHROOT"}

checkCapabilities(spec, res, ns) ==
    LET cs == allContainers(spec) IN
    Flatten([i \in 1..Len(cs) |->
        IF ~cs[i].sc \/ ~cs[i].caps THEN <<>>
        ELSE Flatten([j \in 1..Len(cs[i].capAdd) |->
                IF cs[i].capAdd[j] \notin SafeCapabilities
                THEN <<PssFinding("PSS-B006", "high", "FAIL", res, ns, cs[i].name)>>
                ELSE <<>>])])

checkVolumeTypes(spec, res, ns) ==
    Flatten([i \in 1..Len(spec.volumes) |->
        IF spec.volumes[i].hostPath
        THEN <<PssFinding("PSS-B007", "high", "FAIL", res, ns, "")>>
        ELSE <<>>])

checkProcMount(spec, res, ns) ==
    PerContainer(spec, LAMBDA c : c.sc /\ c.procMount \notin {"unset", "Default"},
                 "PSS-B008", "medium", "FAIL", res, ns)

checkRunAsNonRoot(spec, res, ns) ==
    LET podLevelNonRoot == spec.psc /\ spec.pRunAsNonRoot = "true"
        podHasUID == spec.psc /\ spec.pRunAsUser > 0
    IN  PerContainer(spec,
            LAMBDA c : /\ ~podLevelNonRoot
                       /\ ~(c.sc /\ c.runAsNonRoot = "true")
                       /\ ~(c.sc /\ c.runAsUser > 0)
                       /\ ~podHasUID,
            "PSS-R001", "high", "FAIL", res, ns)

SeccompOK(profile) == profile \in {"RuntimeDefault", "Localhost"}

checkSeccompProfile(spec, res, ns) ==
    LET podHasSeccomp == spec.psc /\ SeccompOK(spec.pSeccomp) IN
    PerContainer(spec, LAMBDA c : ~podHasSeccomp /\ ~(c.sc /\ SeccompOK(c.seccomp)),
                 "PSS-R002", "medium", "FAIL", res, ns)

\* strings.EqualFold(cap, "ALL")
EqualFoldALL(cap) == cap \in {"ALL", "all", "All"}

checkDropAllCapabilities(spec, res, ns) ==
    PerContainer(spec,
        LAMBDA c : ~(c.sc /\ c.caps /\ \E j \in 1..Len(c.capDrop) : EqualFoldALL(c.capDrop[j])),
        "PSS-R003", "medium", "FAIL", res, ns)

\* checkAllowPrivilegeEscalation, had an unset field passed.
checkAllowPrivilegeEscalationSetOnly(spec, res, ns) ==
    PerContainer(spec, LAMBDA c : c.sc /\ c.ape = "true",
                 "PSS-R004", "medium", "FAIL", res, ns)

checkAllowPrivilegeEscalation(spec, res, ns) ==
    PerContainer(spec, LAMBDA c : ~c.sc \/ c.ape = "unset" \/ c.ape = "true",
                 "PSS-R004", "medium", "FAIL", res, ns)

checkReadOnlyRootFilesystem(spec, res, ns) ==
    PerContainer(spec, LAMBDA c : ~c.sc \/ c.rorfs = "unset" \/ c.rorfs # "true",
                 "PSS-R005", "low", "WARNING", res, ns)

checkPodSpec(spec, res, ns) ==
    checkPrivileged(spec, res, ns)
    \o checkHostNamespaces(spec, res, ns)
    \o checkHostPorts(spec, res, ns)
    \o checkCapabilities(spec, res, ns)
    \o checkVolumeTypes(spec, res, ns)
    \o checkProcMount(spec, res, ns)
    \o checkRunAsNonRoot(spec, res, ns)
    \o checkSeccompProfile(spec, res, ns)
    \o checkDropAllCapabilities(spec, res, ns)
    \o checkAllowPrivilegeEscalation(spec, res, ns)
    \o checkReadOnlyRootFilesystem(spec, res, ns)

\* The findings of a list of workloads of one kind.
WorkloadFindings(kind, workloads) ==
    Flatten([i \in 1..Len(workloads) |->
        checkPodSpec(workloads[i].spec, <<kind, workloads[i].ns, workloads[i].name>>,
                     workloads[i].ns)])

\* One iteration of Check's loop: each failed listing ends the iteration with
\* `continue`, after the findings of the listings before it were appended.
PssCheckNamespace(w, ns) ==
    IF Fails(w, "pods", ns) THEN <<>>
    ELSE WorkloadFindings("Pod", w.content[ns].pods) \o
      (IF Fails(w, "deployments", ns) THEN <<>>
       ELSE WorkloadFindings("Deployment", w.content[ns].deployments) \o
         (IF Fails(w, "daemonsets", ns) THEN <<>>
          ELSE WorkloadFindings("DaemonSet", w.content[ns].daemonsets) \o
            (IF Fails(w, "statefulsets", ns) THEN <<>>
             ELSE WorkloadFindings("StatefulSet", w.content[ns].statefulsets))))

\* Check never returns an error.
PssCheck(w, namespaces) ==
    [err |-> FALSE,
     findings |-> Flatten([i \in 1..Len(namespaces) |-> PssCheckNamespace(w, namespaces[i])])]

(***************************************************************************)
(* Rule evaluator, as the scanner uses it                                  *)
(***************************************************************************)
\* A module whose source does not parse makes every evaluation fail.
BrokenModules == {"broken"}

\* The policy directories of the model: stat fails on "missing"; the walk of
\* "partial" reads one file and fails on the next; "mixed" holds a malformed
\* source (broken.rego) beside a well-formed one.
DirExists(dir) == dir # "missing"

DirFiles(dir) ==
    CASE dir = "extra" -> <<[module |-> "extra", readErr |-> FALSE]>>
      [] dir = "partial" -> <<[module |-> "p1", readErr |-> FALSE],
                              [module |-> "p2", readErr |-> TRUE]>>
      [] dir = "mixed" -> <<[module |-> "broken", readErr |-> FALSE],
                            [module |-> "good", readErr |-> FALSE]>>
      [] OTHER -> <<>>

RECURSIVE WalkDir(_, _, _)
WalkDir(mods, files, i) ==
    IF i > Len(files) THEN [err |-> FALSE, modules |-> mods]
    ELSE IF files[i].readErr THEN [err |-> TRUE, modules |-> mods]
         ELSE WalkDir(mods \cup {files[i].module}, files, i + 1)

LoadFromDirectory(mods, dir) ==
    IF ~DirExists(dir) THEN [err |-> TRUE, modules |-> mods]
    ELSE WalkDir(mods, DirFiles(dir), 1)

\* LoadFromFS: the same walk over an fs.FS; a root that does not exist
\* reaches the callback as an error.
LoadFromFS(mods, root) ==
    IF ~DirExists(root) THEN [err |-> TRUE, modules |-> mods]
    ELSE WalkDir(mods, DirFiles(root), 1)

\* LoadInlinePolicy: the one load that parses the source before storing it.
LoadInlinePolicy(mods, name) ==
    IF name \in BrokenModules THEN [err |-> TRUE, modules |-> mods]
    ELSE [err |-> FALSE, modules |-> mods \cup {name}]

\* AddBundle: every module of the bundle is stored; it returns nothing.
AddBundle(mods, regoModules) == [err |-> FALSE, modules |-> mods \cup regoModules]

ModuleCount(mods) == Cardinality(mods)

\* ParseSeverity: the five names, compared after strings.ToLower.
ParseSeverity(str) ==
    CASE str \in Severities -> [err |-> FALSE, severity |-> str]
      [] str = "HIGH" -> [err |-> FALSE, severity |-> "high"]
      [] OTHER -> [err |-> TRUE, severity |-> ""]

\* A violation value the rules yield: an object (a field that is absent or
\* not a string has its has-flag FALSE), a bare string, or another shape.
ViolationObject(id, hasSeverity, severity) ==
    [shape |-> "object", id |-> id, hasSeverity |-> hasSeverity, severity |-> severity,
     msg |-> "", category |-> "cis"]

ViolationString(msg) ==
    [shape |-> "string", id |-> "", hasSeverity |-> FALSE, severity |-> "",
     msg |-> msg, category |-> ""]

ViolationNumber ==
    [shape |-> "number", id |-> "", hasSeverity |-> FALSE, severity |-> "",
     msg |-> "", category |-> ""]

\* The value of one expression of the result set: a list, a map walked in the
\* order the runtime takes, or a value of another type.
ExprList(items) == [shape |-> "list", items |-> items, order |-> "fwd"]

ExprMap(items, order) == [shape |-> "map", items |-> items, order |-> order]

ExprScalar == [shape |-> "scalar", items |-> <<>>, order |-> "fwd"]

\* CheckResult as parseViolation fills it: Passed is false, Resource and
\* Namespace are empty when the object does not set them.
CheckResult(id, title, sev, msg, cat) ==
    [ID |-> id, Title |-> title, Severity |-> sev, Passed |-> FALSE, Message |-> msg,
     Category |-> cat, Resource |-> <<>>, Namespace |-> ""]

\* parseViolation, had it left an absent severity empty.
parseViolationNoDefault(v) ==
    CASE v.shape = "object" ->
            [err |-> FALSE,
             cr |-> CheckResult(v.id, "",
                        IF v.hasSeverity THEN ParseSeverity(v.severity).severity ELSE "",
                        v.msg, v.category)]
      [] v.shape = "string" ->
            [err |-> FALSE, cr |-> CheckResult("", "Policy Violation", "medium", v.msg, "")]
      [] OTHER -> [err |-> TRUE, cr |-> CheckResult("", "", "", "", "")]

parseViolation(v) ==
    CASE v.shape = "object" ->
            LET parsed == IF v.hasSeverity /\ ~ParseSeverity(v.severity).err
                          THEN ParseSeverity(v.severity).severity ELSE ""
            IN  [err |-> FALSE,
                 cr |-> CheckResult(v.id, "", IF parsed = "" THEN "medium" ELSE parsed,
                                    v.msg, v.category)]
      [] v.shape = "string" ->
            [err |-> FALSE, cr |-> CheckResult("", "Policy Violation", "medium", v.msg, "")]
      [] OTHER -> [err |-> TRUE, cr |-> CheckResult("", "", "", "", "")]

\* The loops of parseResults over one expression value: a violation that does
\* not parse is skipped; a value that is neither list nor map yields nothing.
ParseExpression(value) ==
    IF value.shape \notin {"list", "map"} THEN <<>>
    ELSE LET vs == IF value.order = "fwd" THEN value.items ELSE Reverse(value.items) IN
         Flatten([i \in 1..Len(vs) |->
            IF parseViolation(vs[i]).err THEN <<>> ELSE <<parseViolation(vs[i]).cr>>])

\* parseResults always returns a nil error.
parseResults(rs) ==
    [err |-> FALSE, results |-> Flatten([i \in 1..Len(rs) |-> ParseExpression(rs[i])])]

\* The rules' content is input data: a resource carries the expression values
\* the loaded rules yield for it (viol) and whether evaluating it fails
\* (evalErr).
EvaluateResource(mods, resource) ==
    IF ModuleCount(mods) = 0 THEN [err |-> FALSE, checks |-> <<>>]
    ELSE IF resource.evalErr \/ mods \cap BrokenModules # {}
         THEN [err |-> TRUE, checks |-> <<>>]
         ELSE Let(parseResults(resource.viol), LAMBDA p :
                [err |-> p.err, checks |-> p.results])

ToFinding(cr) ==
    Finding(cr.ID, cr.Severity, IF cr.Passed THEN "PASS" ELSE "FAIL", cr.Category,
            cr.Resource, cr.Namespace, "", 0)

(***************************************************************************)
(* The engine shared by goroutines: Engine.mu and the module table         *)
(***************************************************************************)
Evaluators == {"e1", "e2"}

Loaders == {"l1"}

Goroutines == Evaluators \cup Loaders

\* sync.RWMutex: the goroutines holding the read lock, the goroutine that
\* holds the write side, and whether that one still waits for the readers
\* that held the lock when it arrived.
FreeMutex == [readers |-> {}, writer |-> "none", draining |-> FALSE]

\* RLock does not block, had it ignored the writer.
CanRLockAlways(m) == TRUE

\* RLock does not block, had it only waited for a writer that awaits the lock.
CanRLockBesideWriter(m) == m.writer = "none" \/ ~m.draining

\* RLock does not block: no goroutine holds or awaits the write lock.
CanRLock(m) == m.writer = "none"

\* Lock can announce itself: no other writer holds the write side.
CanAnnounce(m) == m.writer = "none"

\* Lock returns: the readers have left.
CanLock(m, l) == m.writer = l /\ m.draining /\ m.readers = {}

\* The loads a goroutine may call, with their argument.
LoadCalls ==
    {[op |-> "LoadFromDirectory", arg |-> "mixed"],
     [op |-> "LoadFromDirectory", arg |-> "missing"],
     [op |-> "LoadFromFS", arg |-> "partial"],
     [op |-> "LoadInlinePolicy", arg |-> "broken"],
     [op |-> "LoadInlinePolicy", arg |-> "inline"],
     [op |-> "AddBundle", arg |-> "bundle"]}

\* PolicyBundle.RegoModules of the bundle of the model, in the order the
\* loop of AddBundle meets them.
BundleWalk == <<"bundled", "extras">>

BundleModules == Range(BundleWalk)

\* The body of a load, run under the write lock.
LoadBody(mods, call) ==
    CASE call.op = "LoadFromDirectory" -> LoadFromDirectory(mods, call.arg)
      [] call.op = "LoadFromFS" -> LoadFromFS(mods, call.arg)
      [] call.op = "LoadInlinePolicy" -> LoadInlinePolicy(mods, call.arg)
      [] OTHER -> AddBundle(mods, BundleModules)

\* One call of the walk's callback on the file after the step files already
\* visited: a read error ends the walk, else the module is stored.
WalkStep(mods, files, step) ==
    IF files[step + 1].readErr THEN [err |-> TRUE, modules |-> mods, more |-> FALSE]
    ELSE [err |-> FALSE, modules |-> mods \cup {files[step + 1].module},
          more |-> step + 1 < Len(files)]

\* The next assignment to e.modules of a load that has made step of them, and
\* whether the load goes on after it.
LoadStep(mods, call, step) ==
    CASE call.op \in {"LoadFromDirectory", "LoadFromFS"} ->
            IF ~DirExists(call.arg) THEN [err |-> TRUE, modules |-> mods, more |-> FALSE]
            ELSE IF DirFiles(call.arg) = <<>>
                 THEN [err |-> FALSE, modules |-> mods, more |-> FALSE]
                 ELSE WalkStep(mods, DirFiles(call.arg), step)
      [] call.op = "LoadInlinePolicy" ->
            [err |-> LoadInlinePolicy(mods, call.arg).err,
             modules |-> LoadInlinePolicy(mods, call.arg).modules, more |-> FALSE]
      [] OTHER ->
            [err |-> FALSE, modules |-> mods \cup {BundleWalk[step + 1]},
             more |-> step + 1 < Len(BundleWalk)]

\* A goroutine's call: what it called, the table an evaluation copied, the
\* error returned, whether it returned, the assignments a load has made, and
\* (history) whether a load held the lock when the call was made and the
\* table a load found.
NoCall == [op |-> "", arg |-> "", snapshot |-> {}, err |-> FALSE, done |-> FALSE,
           duringLoad |-> FALSE, step |-> 0, before |-> {}]

\* The resource an evaluation is given.
PlainResource == [evalErr |-> FALSE, viol |-> <<>>]

\* A load holds the write lock.
LoadInProgress == \E l \in Loaders : pc[l] \in {"loading", "loaded"}

\* Evaluate is called: the goroutine reaches e.mu.RLock().
EvaluateCall(e) ==
    /\ pc[e] = "idle"
    /\ pc' = [pc EXCEPT ![e] = "rlock"]
    /\ calls' = [calls EXCEPT ![e] = [NoCall EXCEPT !.op = "Evaluate",
                                                    !.duringLoad = LoadInProgress]]
    /\ UNCHANGED <<checkVars, mu, table, resultVars, runVars, recVars>>

\* e.mu.RLock() returns.
EvaluateRLock(e) ==
    /\ pc[e] = "rlock"
    /\ CanRLock(mu)
    /\ mu' = [mu EXCEPT !.readers = @ \cup {e}]
    /\ pc' = [pc EXCEPT ![e] = "copying"]
    /\ UNCHANGED <<checkVars, table, calls, resultVars, runVars, recVars>>

\* The table is copied and e.mu.RUnlock() is called.
EvaluateCopy(e) ==
    /\ pc[e] = "copying"
    /\ calls' = [calls EXCEPT ![e].snapshot = table]
    /\ mu' = [mu EXCEPT !.readers = @ \ {e}]
    /\ pc' = [pc EXCEPT ![e] = "evaluating"]
    /\ UNCHANGED <<checkVars, table, resultVars, runVars, recVars>>

\* The copy is evaluated, without the lock, and Evaluate returns.
EvaluateReturn(e) ==
    /\ pc[e] = "evaluating"
    /\ calls' = [calls EXCEPT
                    ![e].err = EvaluateResource(calls[e].snapshot, PlainResource).err,
                    ![e].done = TRUE]
    /\ pc' = [pc EXCEPT ![e] = "idle"]
    /\ UNCHANGED <<checkVars, mu, table, resultVars, runVars, recVars>>

\* A load is called: the goroutine reaches e.mu.Lock().
LoadCall(l) ==
    /\ pc[l] = "idle"
    /\ \E c \in LoadCalls :
        calls' = [calls EXCEPT ![l] = [NoCall EXCEPT !.op = c.op, !.arg = c.arg]]
    /\ pc' = [pc EXCEPT ![l] = "lock"]
    /\ UNCHANGED <<checkVars, mu, table, resultVars, runVars, recVars>>

\* Lock takes the write side: from now on RLock blocks.
LoadAnnounce(l) ==
    /\ pc[l] = "lock"
    /\ CanAnnounce(mu)
    /\ mu' = [mu EXCEPT !.writer = l, !.draining = TRUE]
    /\ pc' = [pc EXCEPT ![l] = "drain"]
    /\ UNCHANGED <<checkVars, table, calls, resultVars, runVars, recVars>>

\* e.mu.Lock() returns.
LoadLock(l) ==
    /\ pc[l] = "drain"
    /\ CanLock(mu, l)
    /\ mu' = [mu EXCEPT !.draining = FALSE]
    /\ pc' = [pc EXCEPT ![l] = "loading"]
    /\ calls' = [calls EXCEPT ![l].before = table]
    /\ UNCHANGED <<checkVars, table, resultVars, runVars, recVars>>

\* The load makes its next assignment to e.modules, or fails.
LoadStore(l) ==
    /\ pc[l] = "loading"
    /\ \E r \in {LoadStep(table, calls[l], calls[l].step)} :
        /\ table' = r.modules
        /\ calls' = [calls EXCEPT ![l].err = r.err, ![l].step = @ + 1]
        /\ pc' = [pc EXCEPT ![l] = IF r.more THEN "loading" ELSE "loaded"]
    /\ UNCHANGED <<checkVars, mu, resultVars, runVars, recVars>>

\* The deferred e.mu.Unlock(), and the load returns.
LoadUnlock(l) ==
    /\ pc[l] = "loaded"
    /\ mu' = [mu EXCEPT !.writer = "none"]
    /\ calls' = [calls EXCEPT ![l].done = TRUE]
    /\ pc' = [pc EXCEPT ![l] = "idle"]
    /\ UNCHANGED <<checkVars, table, resultVars, runVars, recVars>>

NextEngine ==
    \/ \E e \in Evaluators :
        EvaluateCall(e) \/ EvaluateRLock(e) \/ EvaluateCopy(e) \/ EvaluateReturn(e)
    \/ \E l \in Loaders :
        LoadCall(l) \/ LoadAnnounce(l) \/ LoadLock(l) \/ LoadStore(l) \/ LoadUnlock(l)

(***************************************************************************)
(* Scanner                                                                 *)
(***************************************************************************)
ValidScanTypes == {"full", "cis", "rbac", "network", "pss"}

AnalyzerNames == <<"rbac", "network", "pss">>

\* fmt.Sprintf("pod-%d", i) and fmt.Sprintf("deploy-%d", i), i counted from 0
IndexName(prefix, i) ==
    IF prefix = "pod" THEN <<"pod-0", "pod-1", "pod-2">>[i]
    ELSE <<"deploy-0", "deploy-1", "deploy-2">>[i]

\* The loop over one listing of runOPAPolicies.
EvaluateAll(mods, resources, kind, prefix, ns) ==
    Flatten([i \in 1..Len(resources) |->
        LET e == EvaluateResource(mods, resources[i]) IN
        IF e.err THEN <<>>
        ELSE [j \in 1..Len(e.checks) |->
                ToFinding([e.checks[j] EXCEPT
                    !.Resource = IF @ = <<>> THEN <<kind, ns, IndexName(prefix, i)>> ELSE @,
                    !.Namespace = IF @ = "" THEN ns ELSE @])]])

OpaNamespace(w, mods, ns) ==
    IF Fails(w, "pods", ns)
    THEN [findings |-> <<>>, io |-> <<<<"ListPodsJSON", ns>>>>]
    ELSE LET podF == EvaluateAll(mods, w.content[ns].pods, "Pod", "pod", ns) IN
         IF Fails(w, "deployments", ns)
         THEN [findings |-> podF,
               io |-> <<<<"ListPodsJSON", ns>>, <<"ListDeploymentsJSON", ns>>>>]
         ELSE [findings |-> podF \o EvaluateAll(mods, w.content[ns].deployments,
                                                "Deployment", "deploy", ns),
               io |-> <<<<"ListPodsJSON", ns>>, <<"ListDeploymentsJSON", ns>>>>]

runOPAPolicies(w, eng, namespaces) ==
    IF eng.nil THEN [findings |-> <<>>, io |-> <<>>]
    ELSE IF ModuleCount(eng.modules) = 0 THEN [findings |-> <<>>, io |-> <<>>]
    ELSE Let([i \in 1..Len(namespaces) |->
                OpaNamespace(w, eng.modules, namespaces[i])] \o <<>>,
             LAMBDA per :
                [findings |-> Flatten([i \in 1..Len(per) |-> per[i].findings]),
                 io |-> Flatten([i \in 1..Len(per) |-> per[i].io])])

Analyze(w, name, namespaces) ==
    CASE name = "rbac" -> RbacAnalyze(w, namespaces)
      [] name = "network" -> NetworkAnalyze(w, namespaces)
      [] name = "pss" -> PssCheck(w, namespaces)

\* runAnalyzer, had it treated a missing registration as an error.
runAnalyzerMissingIsError(w, reg, namespaces, name) ==
    IF name \notin reg
    THEN [err |-> TRUE, findings |-> <<>>, dispatch |-> <<>>]
    ELSE Let(Analyze(w, name, namespaces), LAMBDA a :
            [err |-> a.err, findings |-> IF a.err THEN <<>> ELSE a.findings,
             dispatch |-> <<name>>])

\* err, the findings appended to the result, and the analyzer invoked.
runAnalyzer(w, reg, namespaces, name) ==
    IF name \notin reg
    THEN [err |-> FALSE, findings |-> <<>>, dispatch |-> <<>>]
    ELSE Let(Analyze(w, name, namespaces), LAMBDA a :
            [err |-> a.err, findings |-> IF a.err THEN <<>> ELSE a.findings,
             dispatch |-> <<name>>])

\* runAnalyzers, had it stopped at the first analyzer that fails.
runAnalyzersStopAtError(w, reg, namespaces, names) ==
    Let([i \in 1..Len(names) |-> runAnalyzer(w, reg, namespaces, names[i])] \o <<>>,
        LAMBDA per :
            LET ok(i) == \A k \in 1..(i - 1) : ~per[k].err IN
            [findings |-> Flatten([i \in 1..Len(per) |->
                            IF ok(i) THEN per[i].findings ELSE <<>>]),
             dispatch |-> Flatten([i \in 1..Len(per) |->
                            IF ok(i) THEN per[i].dispatch ELSE <<>>])])

\* runAnalyzers logs an analyzer's error and goes on with the next name.
runAnalyzers(w, reg, namespaces, names) ==
    Let([i \in 1..Len(names) |-> runAnalyzer(w, reg, namespaces, names[i])] \o <<>>,
        LAMBDA per :
            [findings |-> Flatten([i \in 1..Len(per) |-> per[i].findings]),
             dispatch |-> Flatten([i \in 1..Len(per) |-> per[i].dispatch])])

\* The loop over config.PolicyPaths; a failed load is logged.
RECURSIVE LoadPaths(_, _, _)
LoadPaths(mods, paths, i) ==
    IF i > Len(paths) THEN mods
    ELSE LoadPaths(LoadFromDirectory(mods, paths[i]).modules, paths, i + 1)

EndTs == 2

\* The stamping loop of Run.
StampOne(f) == IF f.ts = 0 THEN [f EXCEPT !.ts = EndTs] ELSE f

Stamp(findings) ==
    Let(findings \o <<>>, LAMBDA fs : [i \in 1..Len(fs) |-> StampOne(fs[i])] \o <<>>)

\* Finalize, had the filtered result kept the summary of all the findings.
FinalizeKeepSummary(findings, threshold) ==
    Let(Stamp(findings), LAMBDA stamped :
        [Findings |-> IF threshold # "" THEN FilterLoop(stamped, threshold) ELSE stamped,
         Summary |-> ComputeSummary(stamped)])

\* Stamp, summarise, filter.
Finalize(findings, threshold) ==
    Let(Stamp(findings), LAMBDA stamped :
        Let([Findings |-> stamped, Summary |-> ComputeSummary(stamped)], LAMBDA result :
            IF threshold # "" THEN FilterByThreshold(result, threshold).filtered
            ELSE result))

NoSummary == ZeroSummary

RunError(config, e, io, eng) ==
    [valid |-> TRUE, config |-> config, err |-> e, findings |-> <<>>, raw |-> <<>>,
     produced |-> <<>>,
     summary |-> NoSummary, namespaces |-> <<>>, dispatch |-> <<>>, io |-> io,
     engine |-> eng]

RunOK(config, namespaces, findings, dispatch, io, eng) ==
    Let(Stamp(findings), LAMBDA raw :
        Let(Finalize(raw, config.threshold), LAMBDA fin :
            [valid |-> TRUE, config |-> config, err |-> "", findings |-> fin.Findings,
             raw |-> raw, produced |-> findings, summary |-> fin.Summary, namespaces |-> namespaces,
             dispatch |-> dispatch, io |-> io, engine |-> eng]))

\* NamespacesForScan, had a failed listing been swallowed.
ResolveNamespacesSwallow(w, requested) ==
    LET r == NamespacesForScan(w, requested) IN [r EXCEPT !.err = FALSE]

\* Run's call of the accessor.
ResolveNamespaces(w, requested) == NamespacesForScan(w, requested)

\* Scanner.Run: what it returns, the checks it dispatched (dispatch), the calls
\* it made to the accessor and the evaluator's loader (io), and the evaluator
\* it leaves behind.  ClusterName() reads a field of the accessor.
Run(w, reg, eng, config) ==
    LET io0 == <<<<"NamespacesForScan", "">>>>
        t == config.scanType
        io1 == io0 \o (IF eng.nil THEN <<>>
                       ELSE [i \in 1..Len(config.policyPaths) |->
                                <<"LoadFromDirectory", config.policyPaths[i]>>])
        Analyzed(names) == [i \in 1..Len(names) |-> <<"Analyze", names[i]>>]
    IN
    Let(ResolveNamespaces(w, config.namespaces), LAMBDA ns :
    IF ns.err THEN RunError(config, "resolving namespaces", io0, eng)
    ELSE
    Let(IF eng.nil THEN eng
        ELSE [eng EXCEPT !.modules = LoadPaths(@, config.policyPaths, 1)], LAMBDA eng1 :
    CASE t = "full" ->
            Let(runOPAPolicies(w, eng1, ns.namespaces), LAMBDA opa :
            Let(runAnalyzers(w, reg, ns.namespaces, AnalyzerNames), LAMBDA an :
                RunOK(config, ns.namespaces, opa.findings \o an.findings,
                      <<"opa">> \o an.dispatch,
                      io1 \o opa.io \o Analyzed(an.dispatch), eng1)))
      [] t = "cis" ->
            Let(runOPAPolicies(w, eng1, ns.namespaces), LAMBDA opa :
                RunOK(config, ns.namespaces, opa.findings, <<"opa">>,
                      io1 \o opa.io, eng1))
      [] t \in {"rbac", "network", "pss"} ->
            Let(runAnalyzer(w, reg, ns.namespaces, t), LAMBDA a :
                IF a.err
                THEN [RunError(config,
                               CASE t = "rbac" -> "RBAC analysis"
                                 [] t = "network" -> "network analysis"
                                 [] OTHER -> "PSS check",
                               io1 \o Analyzed(a.dispatch), eng1)
                      EXCEPT !.dispatch = a.dispatch]
                ELSE RunOK(config, ns.namespaces, a.findings, a.dispatch,
                           io1 \o Analyzed(a.dispatch), eng1))
      [] OTHER -> RunError(config, "unknown scan type", io1, eng1)))

(***************************************************************************)
(* The cluster of the model                                                *)
(***************************************************************************)
\* A container with no securityContext.
BareContainer(name) ==
    [name |-> name, sc |-> FALSE, privileged |-> "unset", ape |-> "unset",
     rorfs |-> "unset", runAsNonRoot |-> "unset", runAsUser |-> -1,
     seccomp |-> "unset", caps |-> FALSE, capAdd |-> <<>>, capDrop |-> <<>>,
     procMount |-> "unset", hostPorts |-> <<>>]

\* A container that passes every rule.
HardenedContainer(name) ==
    [BareContainer(name) EXCEPT !.sc = TRUE, !.privileged = "false", !.ape = "false",
        !.rorfs = "true", !.runAsNonRoot = "true", !.seccomp = "RuntimeDefault",
        !.caps = TRUE, !.capDrop = <<"ALL">>]

PrivilegedContainer(name) ==
    [HardenedContainer(name) EXCEPT !.privileged = "true", !.ape = "true",
        !.capAdd = <<"SYS_ADMIN", "CHOWN">>, !.hostPorts = <<0, 8080>>]

PodSpec(init, containers, ephemeral) ==
    [hostNetwork |-> FALSE, hostPID |-> FALSE, hostIPC |-> FALSE, psc |-> FALSE,
     pRunAsNonRoot |-> "unset", pRunAsUser |-> -1, pSeccomp |-> "unset",
     volumes |-> <<>>, init |-> init, containers |-> containers, ephemeral |-> ephemeral]

Workload(ns, name, spec, viol, evalErr) ==
    [ns |-> ns, name |-> name, spec |-> spec, viol |-> viol, evalErr |-> evalErr]

Rule(verbs, resources, apiGroups) ==
    [verbs |-> verbs, resources |-> resources, apiGroups |-> apiGroups]

Role(ns, name, rules) == [ns |-> ns, name |-> name, rules |-> rules]

Subject(kind, name, ns) == [kind |-> kind, name |-> name, ns |-> ns]

Binding(ns, name, refKind, refName, subjects) ==
    [ns |-> ns, name |-> name, roleRef |-> [kind |-> refKind, name |-> refName],
     subjects |-> subjects]

NetworkPolicy(ns, name, selectAll, policyTypes, ingress, egress) ==
    [ns |-> ns, name |-> name, selectAll |-> selectAll, policyTypes |-> policyTypes,
     ingress |-> ingress, egress |-> egress]

Service(ns, name, type, ports) == [ns |-> ns, name |-> name, type |-> type, ports |-> ports]

EmptyNamespace ==
    [pods |-> <<>>, deployments |-> <<>>, daemonsets |-> <<>>, statefulsets |-> <<>>,
     roles |-> <<>>, roleBindings |-> <<>>, policies |-> <<>>, services |-> <<>>]

ClusterNamespaces == <<"dev", "kube-system", "prod">>

DevNamespace ==
    [pods |-> <<Workload("dev", "web",
                    PodSpec(<<BareContainer("init")>>, <<PrivilegedContainer("app")>>,
                            <<HardenedContainer("debug")>>),
                    <<ExprList(<<ViolationObject("CIS-5.2.1", TRUE, "high"),
                                 ViolationNumber,
                                 ViolationObject("CIS-5.2.2", TRUE, "low")>>),
                      ExprScalar>>, FALSE)>>,
     deployments |-> <<Workload("dev", "api",
                    PodSpec(<<>>, <<HardenedContainer("api")>>, <<>>), <<>>, TRUE)>>,
     daemonsets |-> <<>>,
     statefulsets |-> <<Workload("dev", "db",
                    [PodSpec(<<>>, <<BareContainer("db")>>, <<>>)
                        EXCEPT !.volumes = <<[name |-> "data", hostPath |-> TRUE]>>],
                    <<>>, FALSE)>>,
     roles |-> <<Role("dev", "reader", <<Rule(<<"get", "list">>, <<"pods">>, <<"">>)>>),
                 Role("dev", "ops", <<Rule(<<"*">>, <<"pods">>, <<"">>),
                                      Rule(<<"create">>, <<"*">>, <<"">>)>>)>>,
     roleBindings |-> <<Binding("dev", "read", "Role", "reader",
                                <<Subject("ServiceAccount", "default", "dev")>>),
                        Binding("dev", "ops", "Role", "ops",
                                <<Subject("User", "alice", "")>>)>>,
     policies |-> <<NetworkPolicy("dev", "deny-in", TRUE, <<"Ingress">>, "absent", "absent")>>,
     services |-> <<Service("dev", "web", "NodePort", <<30080>>)>>]

ProdNamespace ==
    [EmptyNamespace EXCEPT
        !.deployments = <<Workload("prod", "app",
                            [PodSpec(<<>>, <<HardenedContainer("app")>>, <<>>)
                                EXCEPT !.hostNetwork = TRUE],
                            <<ExprMap(<<ViolationObject("CIS-5.2.3", FALSE, "")>>, "fwd")>>,
                            FALSE)>>,
        !.roles = <<Role("prod", "deployer",
                         <<Rule(<<"update">>, <<"rolebindings">>, <<"rbac">>)>>)>>,
        !.roleBindings = <<Binding("prod", "deploy", "Role", "deployer",
                                   <<Subject("User", "carol", "")>>)>>,
        !.services = <<Service("prod", "lb", "LoadBalancer", <<443>>)>>]

KubeSystemNamespace ==
    [EmptyNamespace EXCEPT
        !.pods = <<Workload("kube-system", "proxy",
                       [PodSpec(<<>>, <<PrivilegedContainer("proxy")>>, <<>>)
                           EXCEPT !.hostNetwork = TRUE, !.hostPID = TRUE],
                       <<>>, FALSE)>>,
        !.services = <<Service("kube-system", "dns", "ClusterIP", <<53>>)>>]

ClusterContent ==
    [n \in {"dev", "kube-system", "prod"} |->
        CASE n = "dev" -> DevNamespace
          [] n = "prod" -> ProdNamespace
          [] OTHER -> KubeSystemNamespace]

ClusterRoles ==
    <<Role("", "cluster-admin", <<Rule(<<"*">>, <<"*">>, <<"*">>)>>),
      Role("", "system:node", <<Rule(<<"*">>, <<"nodes">>, <<"">>)>>),
      Role("", "auditor", <<Rule(<<"get">>, <<"pods">>, <<"*">>)>>)>>

ClusterRoleBindings ==
    <<Binding("", "system:masters", "ClusterRole", "cluster-admin",
              <<Subject("Group", "system:masters", "")>>),
      Binding("", "grant-bob", "ClusterRole", "cluster-admin",
              <<Subject("User", "bob", "")>>)>>

\* The listing calls that can fail, one at most in a run.
PerNamespaceKinds ==
    {"pods", "deployments", "daemonsets", "statefulsets", "roles", "rolebindings",
     "networkpolicies", "services"}

FailPoints ==
    {<<"namespaces", "">>, <<"clusterroles", "">>, <<"clusterrolebindings", "">>}
    \cup (PerNamespaceKinds \X {"dev", "prod"})

FailChoices == {{}} \cup {{p} : p \in FailPoints}

Worlds ==
    {[nsList |-> ClusterNamespaces, content |-> ClusterContent,
      clusterRoles |-> ClusterRoles, clusterRoleBindings |-> ClusterRoleBindings,
      fails |-> f, order |-> o] : f \in FailChoices, o \in {"fwd", "rev"}}

\* The scanners the callers build: the CLI and the reconciler register the
\* three analyzers; a scanner can also be built with fewer.
ScannerSetups ==
    {[registered |-> {"rbac", "network", "pss"}, engine |-> [nil |-> FALSE, modules |-> {"base"}]],
     [registered |-> {"rbac", "network", "pss"}, engine |-> [nil |-> TRUE, modules |-> {}]],
     [registered |-> {"rbac", "pss"}, engine |-> [nil |-> FALSE, modules |-> {"base"}]],
     [registered |-> {}, engine |-> [nil |-> FALSE, modules |-> {}]]}

ScanTypeChoices == ValidScanTypes \cup {"bogus"}

NamespaceChoices == {<<>>, <<"dev">>, <<"kube-system", "prod">>}

ThresholdChoices == {"", "high"}

PolicyPathChoices == {<<>>, <<"extra">>, <<"missing", "partial">>}

Configs ==
    {[scanType |-> t, namespaces |-> n, threshold |-> th, policyPaths |-> pp] :
        t \in ScanTypeChoices, n \in NamespaceChoices,
        th \in ThresholdChoices, pp \in PolicyPathChoices}

NoConfig == [scanType |-> "", namespaces |-> <<>>, threshold |-> "", policyPaths |-> <<>>]

\* A cluster in which no call fails, its maps walked in slice order.
QuietWorld == CHOOSE w \in Worlds : w.fails = {} /\ w.order = "fwd"

NoRun ==
    [valid |-> FALSE, config |-> NoConfig, err |-> "", findings |-> <<>>, raw |-> <<>>,
     produced |-> <<>>,
     summary |-> NoSummary, namespaces |-> <<>>, dispatch |-> <<>>, io |-> <<>>,
     engine |-> [nil |-> TRUE, modules |-> {}]]

EmptyResult == [Findings |-> <<>>, Summary |-> ZeroSummary, summarized |-> FALSE]

NoFilter ==
    [valid |-> FALSE, threshold |-> "", before |-> EmptyResult, after |-> EmptyResult,
     Findings |-> <<>>, Summary |-> ZeroSummary]

(***************************************************************************)
(* Spec: Scanner.Run                                                       *)
(***************************************************************************)
\* One call of Scanner.Run on the scanner as first built.
DoRun ==
    /\ ~run.valid
    /\ \E c \in Configs :
        \E r \in {Run(world, registered, engine, c)} :
            /\ run' = r
            /\ engine' = r.engine
    /\ UNCHANGED <<checkVars, engineVars, world, registered, resultVars, recVars>>

(***************************************************************************)
(* One check of an analyzer, applied alone                                 *)
(***************************************************************************)
\* No check has been given anything.
NoArgs ==
    [kind |-> "none", bindings |-> <<>>, clusterRoles |-> <<>>, roles |-> <<>>,
     nsList |-> <<>>, covered |-> {}, policies |-> <<>>,
     spec |-> PodSpec(<<>>, <<>>, <<>>), rs |-> <<>>, requested |-> <<>>]

\* No check has returned.
NoRet ==
    [done |-> FALSE, findings |-> <<>>, info |-> analyzeNamespacePolicies(<<>>),
     checks |-> <<>>, err |-> FALSE]

(***************************************************************************)
(* Reconciliation loop                                                     *)
(***************************************************************************)
ZeroStatus ==
    [phase |-> "", score |-> 0, total |-> 0, passed |-> 0, failed |-> 0,
     findings |-> [critical |-> 0, high |-> 0, medium |-> 0, low |-> 0, info |-> 0],
     lastScanTimeSet |-> FALSE, nextScanTimeSet |-> FALSE, conditions |-> <<>>]

Condition(type, status, reason, message) ==
    [type |-> type, status |-> status, reason |-> reason, message |-> message]

\* setCondition, had it always appended.
setConditionAppend(conditions, c) == Append(conditions, c)

\* setCondition: the first condition of the same type is replaced, else appended.
setCondition(conditions, c) ==
    IF \E i \in 1..Len(conditions) : conditions[i].type = c.type
    THEN LET k == CHOOSE i \in 1..Len(conditions) :
                    /\ conditions[i].type = c.type
                    /\ \A j \in 1..(i - 1) : conditions[j].type # c.type
         IN  [conditions EXCEPT ![k] = c]
    ELSE Append(conditions, c)

\* The scanner executeScan builds: the three analyzers, the reconciler's engine.
ReconcilerAnalyzers == {"rbac", "network", "pss"}

ReconcilerEngine == [nil |-> FALSE, modules |-> {"base"}]

executeScan(sc, w) ==
    LET th == IF sc.spec.threshold # "" THEN ParseSeverity(sc.spec.threshold)
              ELSE [err |-> FALSE, severity |-> ""]
        config == [scanType |-> IF sc.spec.scanType = "" THEN "full" ELSE sc.spec.scanType,
                   namespaces |-> sc.spec.namespaces,
                   threshold |-> th.severity,
                   policyPaths |-> sc.spec.policyPaths]
    IN  IF th.err
        THEN RunError(config, "invalid severity threshold", <<>>, ReconcilerEngine)
        ELSE Run(w, ReconcilerAnalyzers, ReconcilerEngine, config)

\* The status updateStatusFromResult builds from a result's summary.
StatusFromResult(status, summary) ==
    [status EXCEPT
        !.phase = "Completed",
        !.score = summary.Score,
        !.total = summary.TotalChecks,
        !.passed = summary.PassedChecks,
        !.failed = summary.FailedChecks,
        !.lastScanTimeSet = TRUE,
        !.findings = [critical |-> summary.FindingsBySeverity["critical"],
                      high |-> summary.FindingsBySeverity["high"],
                      medium |-> summary.FindingsBySeverity["medium"],
                      low |-> summary.FindingsBySeverity["low"],
                      info |-> summary.FindingsBySeverity["info"]],
        !.conditions = setCondition(@, Condition("ScanComplete", "True", "ScanSucceeded",
                                                 "Scan completed"))]

\* The status handleFailure builds.
StatusFromFailure(status, scanErr) ==
    [status EXCEPT
        !.phase = "Failed",
        !.conditions = setCondition(@, Condition("ScanComplete", "False", "ScanFailed",
                                                 scanErr))]

\* scheduleNext: the RequeueAfter of the result.
scheduleNext(sc) == IF sc.spec.schedule = "" THEN "none" ELSE "1h"

\* The skip test of Reconcile, had it tested Completed alone.
SkipPhaseCompletedOnly(phase) == phase = "Completed"

\* The skip test of Reconcile.
SkipPhase(phase) == phase = "Completed" \/ phase = "Running"

(***************************************************************************)
(* Result delivery: the SaaS client and uploadToSaaS                       *)
(***************************************************************************)
\* saas.NewClient: a client without a token.
NewClient == [nil |-> FALSE, token |-> ""]

NilClient == [nil |-> TRUE, token |-> ""]

IsAuthenticated(cl) == cl.token # ""

\* What the license endpoint answers.
LicenseResponses == {"unreachable", "non200", "invalid", "valid", "validNoToken"}

\* ValidateLicense: the token is stored only when the answer is 200 and valid.
ValidateLicense(cl, licenseKey, resp) ==
    CASE resp = "valid" -> [err |-> FALSE, client |-> [cl EXCEPT !.token = "tok"]]
      [] resp = "validNoToken" -> [err |-> FALSE, client |-> [cl EXCEPT !.token = ""]]
      [] OTHER -> [err |-> TRUE, client |-> cl]

\* What the upload endpoint answers.
UploadResponses == {"unreachable", "non2xx", "badBody", "ok"}

\* UploadScanResults: no request without a token; an unreachable endpoint is
\* not an error.
UploadScanResults(cl, token, resp) ==
    LET tok == IF token = "" THEN cl.token ELSE token IN
    IF tok = "" THEN [err |-> FALSE, sent |-> FALSE, result |-> "noToken"]
    ELSE CASE resp = "unreachable" -> [err |-> FALSE, sent |-> TRUE, result |-> "offline"]
           [] resp = "non2xx" -> [err |-> TRUE, sent |-> TRUE, result |-> "uploadRejected"]
           [] resp = "badBody" -> [err |-> TRUE, sent |-> TRUE, result |-> "uploadUndecoded"]
           [] OTHER -> [err |-> FALSE, sent |-> TRUE, result |-> "uploaded"]

\* The Secret the license key reference names.
SecretStates == {"missing", "emptyKey", "key"}

\* Client.GetSecret: the whole Secret object, or an error.
GetSecret(secret) ==
    IF secret = "missing" THEN [err |-> TRUE, data |-> ""]
    ELSE [err |-> FALSE, data |-> IF secret = "key" THEN "license" ELSE ""]

\* What the world outside answers during one delivery.
DeliveryInputs ==
    {[secret |-> s, license |-> l, upload |-> u] :
        s \in SecretStates, l \in LicenseResponses, u \in UploadResponses}

\* The trace of one uploadToSaaS: whether it got past its two gates, whether
\* it read the Data of a Secret, whether it sent the upload, how it ended.
Delivery(attempted, secretDataRead, uploadSent, result) ==
    [attempted |-> attempted, secretDataRead |-> secretDataRead,
     uploadSent |-> uploadSent, result |-> result]

NoDelivery == Delivery(FALSE, FALSE, FALSE, "none")

\* The second gate of uploadToSaaS, had it not looked at Enabled.
IntegrationPresent(sc) == sc.spec.saas.set

\* The second gate of uploadToSaaS.
IntegrationEnabled(sc) == sc.spec.saas.set /\ sc.spec.saas.enabled

\* uploadToSaaS returns nothing: it leaves the client and a trace.
uploadToSaaS(cl, sc, io) ==
    IF cl.nil THEN [client |-> cl, trace |-> Delivery(FALSE, FALSE, FALSE, "noClient")]
    ELSE IF ~IntegrationEnabled(sc)
    THEN [client |-> cl, trace |-> Delivery(FALSE, FALSE, FALSE, "disabled")]
    ELSE
    LET upload(c, read) ==
            LET u == UploadScanResults(c, "", io.upload)
            IN  [client |-> c, trace |-> Delivery(TRUE, read, u.sent, u.result)]
    IN
    IF ~IsAuthenticated(cl) /\ sc.spec.saas.secretRef
    THEN LET secret == GetSecret(io.secret) IN
         IF secret.err
         THEN [client |-> cl, trace |-> Delivery(TRUE, FALSE, FALSE, "secretError")]
         ELSE IF secret.data = ""
         THEN [client |-> cl, trace |-> Delivery(TRUE, TRUE, FALSE, "emptyKey")]
         ELSE LET v == ValidateLicense(cl, secret.data, io.license) IN
              IF v.err
              THEN [client |-> cl, trace |-> Delivery(TRUE, TRUE, FALSE, "licenseError")]
              ELSE upload(v.client, TRUE)
    ELSE upload(cl, FALSE)

NoLast ==
    [kind |-> "none", outcome |-> "", phaseBefore |-> "", statusBefore |-> ZeroStatus,
     executed |-> FALSE, scanErr |-> "", summary |-> ZeroSummary,
     returnedErr |-> FALSE, requeueAfter |-> "none", delivery |-> NoDelivery,
     phases |-> <<>>]

\* What one Reconcile leaves: the persisted object, and the history record.
Outcome(cl, sc, before, outcome, executed, scanErr, summary, returnedErr, requeueAfter) ==
    [scan |-> sc, client |-> cl, written |-> FALSE,
     last |-> [kind |-> "reconcile", outcome |-> outcome, phaseBefore |-> before.status.phase,
               statusBefore |-> before.status, executed |-> executed, scanErr |-> scanErr,
               summary |-> summary, returnedErr |-> returnedErr,
               requeueAfter |-> requeueAfter, delivery |-> NoDelivery,
               phases |-> <<>>]]

\* The phases the successful Status().Update calls of the reconcile persisted,
\* in order.
Persisted(o, phases) == [o EXCEPT !.last.phases = phases]

\* The deletion test of Reconcile, had it never found a deletion timestamp.
MarkedForDeletionNever(sc) == FALSE

\* The deletion test of Reconcile: the deletion timestamp is set.
MarkedForDeletion(sc) == sc.deleting

\* Reconcile on the persisted object sc, up to and including the write of
\* updateStatusFromResult.  fault names the API call that
\* fails in this reconcile ("none": no call fails), or "crash": the process
\* stops while the scan executes.  w is the cluster the scan reads.
ReconcileScan(sc, fault, w, cl) ==
    IF fault = "get" THEN Outcome(cl, sc, sc, "getError", FALSE, "", ZeroSummary, TRUE, "none")
    ELSE IF ~sc.exists THEN Outcome(cl, sc, sc, "notFound", FALSE, "", ZeroSummary, FALSE, "none")
    ELSE IF MarkedForDeletion(sc) THEN
        IF sc.finalizer
        THEN IF fault = "update"
             THEN Outcome(cl, sc, sc, "updateError", FALSE, "", ZeroSummary, TRUE, "none")
             ELSE Outcome(cl, [sc EXCEPT !.finalizer = FALSE, !.exists = FALSE], sc,
                          "finalized", FALSE, "", ZeroSummary, FALSE, "none")
        ELSE Outcome(cl, sc, sc, "finalized", FALSE, "", ZeroSummary, FALSE, "none")
    ELSE IF ~sc.finalizer /\ fault = "update"
    THEN Outcome(cl, sc, sc, "updateError", FALSE, "", ZeroSummary, TRUE, "none")
    ELSE
    LET s1 == [sc EXCEPT !.finalizer = TRUE] IN
    IF SkipPhase(s1.status.phase)
    THEN Outcome(cl, s1, sc, "skipped", FALSE, "", ZeroSummary, FALSE, scheduleNext(s1))
    ELSE IF fault = "statusRunning"
    THEN Outcome(cl, s1, sc, "updateError", FALSE, "", ZeroSummary, TRUE, "none")
    ELSE
    LET s2 == [s1 EXCEPT !.status.phase = "Running"] IN
    IF fault = "crash"
    THEN Persisted(Outcome(cl, s2, sc, "crashed", TRUE, "", ZeroSummary, FALSE, "none"),
                   <<"Running">>)
    ELSE
    Let(executeScan(s2, w), LAMBDA r :
    IF r.err # ""
    THEN IF fault = "statusFinal"
         THEN Persisted(Outcome(cl, s2, sc, "scanFailed", TRUE, r.err, ZeroSummary, TRUE,
                                "none"), <<"Running">>)
         ELSE Persisted(Outcome(cl, [s2 EXCEPT !.status = StatusFromFailure(@, r.err)], sc,
                                "scanFailed", TRUE, r.err, ZeroSummary, FALSE, "5m"),
                        <<"Running", "Failed">>)
    ELSE IF fault = "statusFinal"
         THEN Persisted(Outcome(cl, s2, sc, "scanSucceeded", TRUE, "", r.summary, TRUE,
                                "none"), <<"Running">>)
         ELSE LET s3 == [s2 EXCEPT !.status = StatusFromResult(@, r.summary)] IN
              [Persisted(Outcome(cl, s3, sc, "scanSucceeded", TRUE, "", r.summary, FALSE,
                                 scheduleNext(s3)), <<"Running", "Completed">>)
                    EXCEPT !.written = TRUE])

\* The rest of Reconcile after updateStatusFromResult has written the
\* status: uploadToSaaS, whose outcome nothing reads, then scheduleNext.
ReconcileDeliver(o, io) ==
    IF o.written
    THEN LET d == uploadToSaaS(o.client, o.scan, io)
         IN  [o EXCEPT !.client = d.client, !.last.delivery = d.trace]
    ELSE o

\* Reconcile as a whole.
ReconcileResult(sc, fault, w, cl, io) ==
    Let(ReconcileScan(sc, fault, w, cl), LAMBDA o : ReconcileDeliver(o, io))

\* The answers one reconcile can meet: they matter only when uploadToSaaS
\* gets past its gates.
InputsOf(o) ==
    IF o.written /\ ~o.client.nil /\ IntegrationEnabled(o.scan) THEN DeliveryInputs
    ELSE {[secret |-> "missing", license |-> "unreachable", upload |-> "unreachable"]}


\* The API call that fails in a reconcile, if any.
Faults == {"none", "get", "update", "statusRunning", "statusFinal", "crash"}

\* The clusters a reconciled scan may find.
ReconcileWorlds ==
    {w \in Worlds : w.order = "fwd" /\
        w.fails \in {{}, {<<"namespaces", "">>}, {<<"clusterroles", "">>}}}

\* Spec.SaaSIntegration: absent (set is FALSE), or its Enabled flag and
\* whether it has a LicenseKeySecretRef.
NoIntegration == [set |-> FALSE, enabled |-> FALSE, secretRef |-> FALSE]

Integrations ==
    {NoIntegration,
     [set |-> TRUE, enabled |-> FALSE, secretRef |-> TRUE],
     [set |-> TRUE, enabled |-> TRUE, secretRef |-> FALSE],
     [set |-> TRUE, enabled |-> TRUE, secretRef |-> TRUE]}

ScanSpecs ==
    {[scanType |-> t, schedule |-> sch, threshold |-> th, namespaces |-> <<>>,
      policyPaths |-> <<>>, saas |-> i] :
        t \in {"", "rbac", "cis"}, sch \in {"", "0 2 * * *"}, th \in {"", "HIGH", "bogus"},
        i \in Integrations}

\* The scan definitions and reconcilers a run starts from: every scan
\* definition without integration, and the integrations and clients on the
\* rbac scans without threshold.
ReconcilerSetups ==
    {su \in [spec : ScanSpecs, client : {NilClient, NewClient}] :
        \/ su.spec.scanType = "rbac" /\ su.spec.threshold = ""
        \/ su.spec.saas = NoIntegration /\ su.client = NewClient}

NoScan ==
    [exists |-> FALSE, deleting |-> FALSE, finalizer |-> FALSE,
     spec |-> [scanType |-> "", schedule |-> "", threshold |-> "", namespaces |-> <<>>,
               policyPaths |-> <<>>, saas |-> NoIntegration],
     status |-> ZeroStatus]

\* One Reconcile of the queued key.  The key is queued again when Reconcile
\* returns an error or a RequeueAfter, and by the watch event of a write the
\* reconcile made itself; after a crash the restarted controller lists it.
ReconcileWith(fault) ==
    /\ queued
    /\ \E w \in ReconcileWorlds :
        \E s \in {ReconcileScan(scan, fault, w, saas)} :
        \E io \in InputsOf(s) :
        \E o \in {ReconcileDeliver(s, io)} :
        /\ scan' = o.scan
        /\ saas' = o.client
        /\ last' = o.last
        /\ queued' = (\/ o.last.returnedErr
                      \/ o.last.requeueAfter # "none"
                      \/ o.scan # scan
                      \/ fault = "crash")
    /\ flip' = ~flip
    /\ UNCHANGED <<checkVars, engineVars, resultVars, runVars>>

Reconcile == \E fault \in Faults : ReconcileWith(fault)

\* The phase is reset from outside the controller.
ExternalReset ==
    /\ scan.exists /\ ~scan.deleting
    /\ scan.status.phase \in {"Running", "Completed", "Failed"}
    /\ \E p \in {"", "Pending"} : scan' = [scan EXCEPT !.status.phase = p]
    /\ queued' = TRUE
    /\ last' = NoLast
    /\ UNCHANGED <<checkVars, engineVars, flip, saas, resultVars, runVars>>

\* The scan definition is deleted: with the finalizer in place it stays,
\* marked with a deletion timestamp.
MarkDeleted ==
    /\ scan.exists /\ ~scan.deleting
    /\ scan' = IF scan.finalizer THEN [scan EXCEPT !.deleting = TRUE]
               ELSE [scan EXCEPT !.exists = FALSE]
    /\ queued' = TRUE
    /\ last' = NoLast
    /\ UNCHANGED <<checkVars, engineVars, flip, saas, resultVars, runVars>>

NextReconcile == Reconcile \/ ExternalReset \/ MarkDeleted

\* A scan definition has just been created; its create event is queued.  The
\* result model and the stand-alone scanner are idle.
InitReconcile ==
    /\ recv = EmptyResult
    /\ filt = NoFilter
    /\ filt2 = NoFilter
    /\ world = QuietWorld
    /\ registered = ReconcilerAnalyzers
    /\ engine = ReconcilerEngine
    /\ run = NoRun
    /\ \E su \in ReconcilerSetups :
        /\ scan = [NoScan EXCEPT !.exists = TRUE, !.spec = su.spec]
        /\ saas = su.client
    /\ queued = TRUE
    /\ last = NoLast
    /\ flip = FALSE
    /\ mu = FreeMutex
    /\ pc = [p \in Goroutines |-> "idle"]
    /\ table = {}
    /\ calls = [p \in Goroutines |-> NoCall]
    /\ args = NoArgs
    /\ ret = NoRet

SpecReconcile == InitReconcile /\ [][NextReconcile]_vars

\* The work queue hands every queued key to Reconcile, and the API calls of a
\* reconcile do not fail for ever.
FairReconcile == SpecReconcile /\ WF_vars(ReconcileWith("none"))

(***************************************************************************)
(* Spec: Scanner.Run                                                       *)
(***************************************************************************)
NextRun == DoRun

\* A scanner as built (NewScanner, RegisterAnalyzer) over some cluster, not
\* yet run.
InitRun ==
    /\ recv = EmptyResult
    /\ filt = NoFilter
    /\ filt2 = NoFilter
    /\ world \in Worlds
    /\ \E s \in ScannerSetups : registered = s.registered /\ engine = s.engine
    /\ run = NoRun
    /\ scan = NoScan
    /\ queued = FALSE
    /\ last = NoLast
    /\ flip = FALSE
    /\ saas = NilClient
    /\ mu = FreeMutex
    /\ pc = [p \in Goroutines |-> "idle"]
    /\ table = {}
    /\ calls = [p \in Goroutines |-> NoCall]
    /\ args = NoArgs
    /\ ret = NoRet

Spec == InitRun /\ [][NextRun]_vars

(***************************************************************************)
(* SpecResult: ComputeSummary and FilterByThreshold                        *)
(***************************************************************************)
TestSeverities == {"critical", "low", ""}

FindingUniverse ==
    {Finding("T-1", sev, st, "test", <<>>, "", "", NowTs) : sev \in TestSeverities, st \in Statuses}

DoComputeSummary ==
    /\ ~recv.summarized
    /\ recv' = [recv EXCEPT !.Summary = ComputeSummary(recv.Findings), !.summarized = TRUE]
    /\ UNCHANGED <<checkVars, engineVars, filt, filt2, runVars, recVars>>

\* r.FilterByThreshold(t): recv is the receiver after the call; filt keeps the
\* receiver as it was before (before) and after (after) the call.
DoFilter ==
    /\ \E t \in SevKeys :
        \E o \in {FilterByThreshold(recv, t)} :
        /\ recv' = o.receiver
        /\ filt' = [valid |-> TRUE, threshold |-> t, before |-> recv,
                    after |-> o.receiver,
                    Findings |-> o.filtered.Findings, Summary |-> o.filtered.Summary]
    /\ filt2' = NoFilter
    /\ UNCHANGED <<checkVars, engineVars, runVars, recVars>>

\* The same threshold applied to the result of DoFilter.
DoFilterAgain ==
    /\ filt.valid /\ ~filt2.valid
    /\ LET r == [Findings |-> filt.Findings, Summary |-> filt.Summary, summarized |-> TRUE]
           o == FilterByThreshold(r, filt.threshold)
       IN  filt2' = [valid |-> TRUE, threshold |-> filt.threshold, before |-> r,
                     after |-> o.receiver,
                     Findings |-> o.filtered.Findings, Summary |-> o.filtered.Summary]
    /\ UNCHANGED <<checkVars, engineVars, recv, filt, runVars, recVars>>

NextResult == DoComputeSummary \/ DoFilter \/ DoFilterAgain

\* A ScanResult holding any list of up to MaxFindings findings.
InitResult ==
    /\ recv \in {[EmptyResult EXCEPT !.Findings = fs] :
                    fs \in BoundedSeq(FindingUniverse, MaxFindings)}
    /\ filt = NoFilter
    /\ filt2 = NoFilter
    /\ world = QuietWorld
    /\ registered = ReconcilerAnalyzers
    /\ engine = ReconcilerEngine
    /\ run = NoRun
    /\ scan = NoScan
    /\ queued = FALSE
    /\ last = NoLast
    /\ flip = FALSE
    /\ saas = NilClient
    /\ mu = FreeMutex
    /\ pc = [p \in Goroutines |-> "idle"]
    /\ table = {}
    /\ calls = [p \in Goroutines |-> NoCall]
    /\ args = NoArgs
    /\ ret = NoRet

SpecResult == InitResult /\ [][NextResult]_vars

(***************************************************************************)
(* SpecEngine: evaluations and loads on one Engine                         *)
(***************************************************************************)
\* NewEngine: an empty module table, the mutex free, no call made.
InitEngine ==
    /\ recv = EmptyResult
    /\ filt = NoFilter
    /\ filt2 = NoFilter
    /\ world = QuietWorld
    /\ registered = {}
    /\ engine = [nil |-> FALSE, modules |-> {}]
    /\ run = NoRun
    /\ scan = NoScan
    /\ queued = FALSE
    /\ last = NoLast
    /\ flip = FALSE
    /\ saas = NilClient
    /\ mu = FreeMutex
    /\ pc = [p \in Goroutines |-> "idle"]
    /\ table = {}
    /\ calls = [p \in Goroutines |-> NoCall]
    /\ args = NoArgs
    /\ ret = NoRet

SpecEngine == InitEngine /\ [][NextEngine]_vars

(***************************************************************************)
(* SpecChecks: the RBAC and network checks on small inputs                 *)
(***************************************************************************)
\* The first k elements of a sequence (all of it when it is shorter).
Prefix(seq, k) == SubSeq(seq, 1, IF k < Len(seq) THEN k ELSE Len(seq))

SubjectPool ==
    <<Subject("User", "bob", ""), Subject("ServiceAccount", "ci", "dev"),
      Subject("Group", "ops", ""), Subject("User", "eve", "")>>

\* ClusterRoleBindings: named with or without the system: prefix, bound to
\* cluster-admin or to another role, with zero or more subjects.
BindingUniverse ==
    {Binding("", n, "ClusterRole", r, Prefix(SubjectPool, k)) :
        n \in {"grant", "system:masters"}, r \in {"cluster-admin", "view"},
        k \in 0..MaxSubjects}

\* A rule with "*" among its verbs, its resources, its API groups, or nowhere.
WildcardRule(where) ==
    Rule(IF where = "verbs" THEN <<"get", "*">> ELSE <<"get">>,
         IF where = "resources" THEN <<"*">> ELSE <<"pods">>,
         IF where = "apiGroups" THEN <<"*">> ELSE <<"">>)

RuleUniverse == {WildcardRule(where) : where \in {"none", "verbs", "resources", "apiGroups"}}

RoleUniverse(ns) ==
    {Role(ns, n, rules) : n \in {"ops", "system:node"},
                          rules \in BoundedSeq(RuleUniverse, MaxRules)}

NamespacePool == <<"n1", "n2", "n3", "n4", "n5", "n6">>

\* Policies: the selector empty or not, every policy-type list, and each of
\* the ingress and egress fields absent, an empty list, or a list of rules.
PolicyUniverse ==
    {NetworkPolicy("n1", "p", sel, pt, ing, egr) :
        sel \in BOOLEAN,
        pt \in {<<>>, <<"Ingress">>, <<"Egress">>, <<"Ingress", "Egress">>},
        ing \in {"absent", "empty", "rules"}, egr \in {"absent", "empty", "rules"}}

\* Containers: without security context, or with one whose
\* allowPrivilegeEscalation is unset, true or false and which is privileged or not.
ContainerUniverse(name) ==
    {BareContainer(name)}
    \cup {[HardenedContainer(name) EXCEPT !.ape = a, !.privileged = pr] :
            a \in {"unset", "true", "false"}, pr \in {"true", "false"}}

\* Pod specs: at most one init container, MaxContainers regular containers
\* and one ephemeral container, each named after its place.
PodSpecUniverse ==
    {PodSpec(i, c, e) :
        i \in {<<>>} \cup {<<x>> : x \in ContainerUniverse("init")},
        c \in UNION {{[k \in 1..n |-> [f[k] EXCEPT !.name = IF k = 1 THEN "c1"
                                                            ELSE IF k = 2 THEN "c2" ELSE "c3"]] :
                        f \in [1..n -> ContainerUniverse("c")]} : n \in 0..MaxContainers},
        e \in {<<>>} \cup {<<x>> : x \in ContainerUniverse("debug")}}

\* Violation values: objects whose severity is absent, valid, valid in upper
\* case or not a severity; a bare string; a number.
ViolationUniverse ==
    {ViolationObject("V-1", FALSE, ""), ViolationObject("V-2", TRUE, "high"),
     ViolationObject("V-3", TRUE, "HIGH"), ViolationObject("V-4", TRUE, "bogus"),
     ViolationObject("V-5", TRUE, "info"), ViolationString("denied"), ViolationNumber}

\* Result sets of one expression: a list or a map of at most MaxViolations
\* values, or a scalar.
ResultSetUniverse ==
    {<<ExprScalar>>}
    \cup {<<ExprList(vs)>> : vs \in BoundedSeq(ViolationUniverse, MaxViolations)}
    \cup {<<ExprMap(vs, o)>> : vs \in BoundedSeq(ViolationUniverse, MaxViolations),
                               o \in {"fwd", "rev"}}

CheckInputs ==
    {[NoArgs EXCEPT !.kind = "violations", !.rs = r] : r \in ResultSetUniverse} \cup
    {[NoArgs EXCEPT !.kind = "podSpec", !.spec = sp] : sp \in PodSpecUniverse} \cup
    {[NoArgs EXCEPT !.kind = "clusterAdmin", !.bindings = bs] :
        bs \in BoundedSeq(BindingUniverse, MaxBindings)}
    \cup {[NoArgs EXCEPT !.kind = "wildcard", !.clusterRoles = crs, !.roles = rs] :
            crs \in BoundedSeq(RoleUniverse(""), 1), rs \in BoundedSeq(RoleUniverse("dev"), 1)}
    \cup {[NoArgs EXCEPT !.kind = "coverage", !.nsList = Prefix(NamespacePool, k) \o sys,
                         !.covered = c] :
            k \in 0..MaxNamespaces, sys \in {<<>>, <<"kube-system">>},
            c \in SUBSET {NamespacePool[i] : i \in 1..MaxNamespaces}}
    \cup {[NoArgs EXCEPT !.kind = "defaultDeny", !.nsList = <<"n1">>, !.policies = ps] :
            ps \in BoundedSeq(PolicyUniverse, MaxPolicies) \ {<<>>}}
    \cup {[NoArgs EXCEPT !.kind = "scope", !.nsList = user \o sys, !.covered = c,
                         !.requested = rq] :
            user \in {<<>>, <<"n1">>, <<"n1", "n2">>},
            sys \in {<<>>, <<"kube-system">>, <<"kube-system", "kube-public">>},
            c \in SUBSET {"n1", "kube-system"},
            rq \in {<<>>, <<"n1">>}}

\* The cluster a network check reads: the policies of namespace n1 are
\* a.policies when given; otherwise a covered namespace holds one policy.
\* When the scope of the analyzer is checked, every namespace (and n1 when
\* it is asked for by name) has a NodePort service.
CheckWorld(a) ==
    [nsList |-> a.nsList,
     content |-> [n \in Range(a.nsList) \cup Range(a.requested) |->
                    [EmptyNamespace EXCEPT
                        !.policies =
                            IF a.policies # <<>> THEN a.policies
                            ELSE IF n \in a.covered
                                 THEN <<NetworkPolicy(n, "p", FALSE, <<"Ingress">>, "rules",
                                                      "absent")>>
                                 ELSE <<>>,
                        !.services =
                            IF a.kind = "scope" THEN <<Service(n, "svc", "NodePort", <<30080>>)>>
                            ELSE <<>>]],
     clusterRoles |-> <<>>, clusterRoleBindings |-> <<>>, fails |-> {}, order |-> "fwd"]

Returned(findings, info) ==
    [done |-> TRUE, findings |-> findings, info |-> info, checks |-> <<>>, err |-> FALSE]

CheckClusterAdminBindings ==
    /\ args.kind = "clusterAdmin" /\ ~ret.done
    /\ ret' = Returned(checkClusterAdminBindings(args.bindings), NoRet.info)
    /\ UNCHANGED <<args, engineVars, resultVars, runVars, recVars>>

CheckWildcardPermissions ==
    /\ args.kind = "wildcard" /\ ~ret.done
    /\ ret' = Returned(checkWildcardPermissions(args.clusterRoles, args.roles), NoRet.info)
    /\ UNCHANGED <<args, engineVars, resultVars, runVars, recVars>>

CheckNamespaceCoverage ==
    /\ args.kind = "coverage" /\ ~ret.done
    /\ \E w \in {CheckWorld(args)} :
        ret' = Returned(checkNamespaceCoverage(w, ScanNS(w, <<>>)), NoRet.info)
    /\ UNCHANGED <<args, engineVars, resultVars, runVars, recVars>>

CheckDefaultDenyPolicies ==
    /\ args.kind = "defaultDeny" /\ ~ret.done
    /\ \E w \in {CheckWorld(args)} :
        ret' = Returned(checkDefaultDenyPolicies(w, PolicyKeys(w, ScanNS(w, <<>>))),
                        analyzeNamespacePolicies(PoliciesOf(w, "n1")))
    /\ UNCHANGED <<args, engineVars, resultVars, runVars, recVars>>

\* Run resolves the scope and passes it to the network analyzer.
AnalyzeResolvedScope ==
    /\ args.kind = "scope" /\ ~ret.done
    /\ \E w \in {CheckWorld(args)} :
        ret' = Returned(NetworkAnalyze(w, ResolveNamespaces(w, args.requested).namespaces)
                            .findings, NoRet.info)
    /\ UNCHANGED <<args, engineVars, resultVars, runVars, recVars>>

CheckPodSpec ==
    /\ args.kind = "podSpec" /\ ~ret.done
    /\ ret' = Returned(checkPodSpec(args.spec, <<"Pod", "dev", "web">>, "dev"), NoRet.info)
    /\ UNCHANGED <<args, engineVars, resultVars, runVars, recVars>>

\* parseResults on a result set, each check result then converted as
\* EvaluateResource and ToFinding convert it.
ParseResults ==
    /\ args.kind = "violations" /\ ~ret.done
    /\ \E p \in {parseResults(args.rs)} :
        ret' = [Returned([i \in 1..Len(p.results) |-> ToFinding(p.results[i])], NoRet.info)
                    EXCEPT !.checks = p.results, !.err = p.err]
    /\ UNCHANGED <<args, engineVars, resultVars, runVars, recVars>>

NextChecks ==
    \/ AnalyzeResolvedScope
    \/ ParseResults
    \/ CheckPodSpec
    \/ CheckClusterAdminBindings
    \/ CheckWildcardPermissions
    \/ CheckNamespaceCoverage
    \/ CheckDefaultDenyPolicies

InitChecks ==
    /\ recv = EmptyResult
    /\ filt = NoFilter
    /\ filt2 = NoFilter
    /\ world = QuietWorld
    /\ registered = {}
    /\ engine = [nil |-> FALSE, modules |-> {}]
    /\ run = NoRun
    /\ scan = NoScan
    /\ queued = FALSE
    /\ last = NoLast
    /\ flip = FALSE
    /\ saas = NilClient
    /\ mu = FreeMutex
    /\ pc = [p \in Goroutines |-> "idle"]
    /\ table = {}
    /\ calls = [p \in Goroutines |-> NoCall]
    /\ args \in CheckInputs
    /\ ret = NoRet

SpecChecks == InitChecks /\ [][NextChecks]_vars

(***************************************************************************)
(* Claims about Scanner.Run (checked under Spec)                           *)
(***************************************************************************)
SingleAnalyzerTypes == {"rbac", "network", "pss"}

\* The names of a list that are registered with the scanner, in order.
RegisteredOf(names) == SelectSeq(names, LAMBDA n : n \in registered)

\* The checks a scan type is to dispatch, in order.
ExpectedDispatch(t) ==
    CASE t = "full" -> <<"opa">> \o RegisteredOf(<<"rbac", "network", "pss">>)
      [] t = "cis" -> <<"opa">>
      [] OTHER -> RegisteredOf(<<t>>)

\* The kinds of call the last run made.
IoKinds == {run.io[i][1] : i \in 1..Len(run.io)}

\* C1: once the namespaces are resolved, Run dispatches by scan type: full
\* runs rule evaluation and then the rbac, network and pss analyzers, cis runs
\* rule evaluation only and invokes no analyzer, rbac/network/pss invoke the
\* one analyzer of that name and no rule evaluation; a single analyzer that is
\* not registered makes Run succeed with no findings.
C1_DispatchByScanType ==
    (run.valid /\ run.config.scanType \in ValidScanTypes
        /\ run.err # "resolving namespaces") =>
        LET t == run.config.scanType IN
        /\ run.dispatch = ExpectedDispatch(t)
        /\ (t = "cis" => "Analyze" \notin IoKinds)
        /\ (t \in SingleAnalyzerTypes =>
                IoKinds \cap {"ListPodsJSON", "ListDeploymentsJSON"} = {})
        /\ ((t \in SingleAnalyzerTypes /\ t \notin registered) =>
                run.err = "" /\ run.findings = <<>> /\ run.dispatch = <<>>)

\* A full scan that ran rule evaluation and the three analyzers, with findings.
C1_Witness ==
    /\ run.valid /\ run.config.scanType = "full" /\ run.err = ""
    /\ run.dispatch = <<"opa", "rbac", "network", "pss">>
    /\ Len(run.findings) > 0

\* The failure of the namespace listing Run needs when no namespace is asked for.
NamespaceResolutionFails ==
    run.config.namespaces = <<>> /\ <<"namespaces", "">> \in world.fails

\* The cluster-wide listings whose failure makes an analyzer return an error.
AnalyzerError(name) ==
    CASE name = "rbac" ->
            world.fails \cap {<<"clusterroles", "">>, <<"clusterrolebindings", "">>} # {}
      [] name = "network" -> <<"namespaces", "">> \in world.fails
      [] OTHER -> FALSE

SingleAnalyzerFails ==
    /\ run.config.scanType \in SingleAnalyzerTypes
    /\ run.config.scanType \in registered
    /\ AnalyzerError(run.config.scanType)

\* C2: for a valid scan type, Run returns an error, and no result, exactly
\* when namespace resolution fails or the scan type names a single analyzer
\* and that analyzer returns an error; a failed rule-source load, a failed pod
\* or deployment listing, a failed evaluation and an analyzer failing inside a
\* full scan do not make Run return an error.
C2_ErrorIffResolutionOrSingleAnalyzer ==
    (run.valid /\ run.config.scanType \in ValidScanTypes) =>
        /\ (run.err # "") <=> (NamespaceResolutionFails \/ SingleAnalyzerFails)
        /\ (run.err # "" =>
                run.findings = <<>> /\ run.raw = <<>> /\ run.summary = NoSummary)

\* A full scan that ends without error although its rbac analyzer failed, its
\* extra rule source could not be loaded and one resource could not be evaluated.
C2_Witness ==
    /\ run.valid /\ run.config.scanType = "full" /\ run.err = ""
    /\ <<"clusterroles", "">> \in world.fails
    /\ run.config.policyPaths = <<"missing", "partial">>
    /\ "rbac" \in registered /\ ~engine.nil
    /\ \A i \in 1..Len(run.raw) : run.raw[i].cat # "rbac"

\* C3: a scan type other than full, cis, rbac, network or pss makes Run return
\* a configuration error before any I/O: no namespace-resolution call, no
\* rule-source load and no analyzer invocation precedes it.
C3_UnknownTypeFailsBeforeIO ==
    (run.valid /\ run.config.scanType \notin ValidScanTypes) =>
        /\ run.err = "unknown scan type"
        /\ run.io = <<>>
        /\ run.dispatch = <<>>

\* The check that makes a per-namespace listing call.
CheckOfKind(kind) ==
    CASE kind \in {"pods", "deployments", "daemonsets", "statefulsets"} -> "pss"
      [] kind \in {"roles", "rolebindings"} -> "rbac"
      [] OTHER -> "network"

\* C4: a namespace whose listing failed inside a dispatched check contributes
\* no finding of that check to the result.
C4_FailedNamespaceContributesNothing ==
    (run.valid /\ run.err = "") =>
        \A p \in world.fails :
            p[1] \in PerNamespaceKinds =>
                \A i \in 1..Len(run.raw) :
                    ~(run.raw[i].cat = CheckOfKind(p[1]) /\ run.raw[i].ns = p[2])

(***************************************************************************)
(* Claims about the result model (checked under SpecResult)                *)
(***************************************************************************)
\* The number of findings of a list that carry a status.
NumWithStatus(findings, st) == Len(SelectSeq(findings, LAMBDA f : f.status = st))

\* score is passed/(passed+failed)*100 at the model's resolution, counting the
\* PASS and FAIL findings of the list only.
ScoreAsSpecified(findings, summary) ==
    LET p == NumWithStatus(findings, "PASS")
        f == NumWithStatus(findings, "FAIL")
    IN  /\ summary.PassedChecks = p
        /\ summary.FailedChecks = f
        /\ 0 <= summary.Score /\ summary.Score <= 100 * ScoreScale
        /\ IF p + f > 0
           THEN /\ summary.Score * (p + f) <= p * 100 * ScoreScale
                /\ p * 100 * ScoreScale < (summary.Score + 1) * (p + f)
           ELSE summary.Score = 0

\* C5: after ComputeSummary, and in every result FilterByThreshold returns,
\* Score is PassedChecks/(PassedChecks+FailedChecks)*100, or 0 when there is
\* neither a passed nor a failed check; warning, error and skipped findings
\* count in neither term, and the score lies in [0,100].
C5_ScoreFormula ==
    /\ recv.summarized => ScoreAsSpecified(recv.Findings, recv.Summary)
    /\ filt.valid => ScoreAsSpecified(filt.Findings, filt.Summary)
    /\ filt2.valid => ScoreAsSpecified(filt2.Findings, filt2.Summary)

\* A summarised result with a passed and a warning finding, scored 100.
C5_Witness ==
    /\ recv.summarized
    /\ NumWithStatus(recv.Findings, "PASS") = 1
    /\ NumWithStatus(recv.Findings, "WARNING") = 1
    /\ recv.Summary.Score = 100 * ScoreScale

\* The severities from the least to the most severe.
RankOrder == <<"info", "low", "medium", "high", "critical">>

\* The rank of a severity: its place in RankOrder, 0 for any other string.
RankOf(sev) ==
    IF \E i \in 1..Len(RankOrder) : RankOrder[i] = sev
    THEN CHOOSE i \in 1..Len(RankOrder) : RankOrder[i] = sev
    ELSE 0

Retained(findings, t) ==
    SelectSeq(findings, LAMBDA f : f.status = "PASS" \/ RankOf(f.sev) >= RankOf(t))

\* C6: FilterByThreshold(t) returns exactly the receiver's findings that
\* passed or rank at least t, in their order; applied again to its result it
\* yields the same findings and summary; the receiver is left unchanged.
C6_FilterByThreshold ==
    /\ filt.valid =>
        /\ filt.Findings = Retained(filt.before.Findings, filt.threshold)
        /\ filt.after = filt.before
    /\ filt2.valid =>
        /\ filt2.Findings = filt.Findings
        /\ filt2.Summary = filt.Summary

\* A filter that dropped a finding and kept one, applied a second time.
C6_Witness ==
    /\ filt.valid /\ filt2.valid
    /\ Len(filt.Findings) = 1
    /\ Len(filt.before.Findings) = 2
    /\ filt.Findings[1].status = "FAIL"

(***************************************************************************)
(* Claims about the reconciliation loop (checked under SpecReconcile and   *)
(* FairReconcile)                                                          *)
(***************************************************************************)
\* C7: a reconcile that finds the persisted phase Running or Completed does
\* not execute a scan and leaves the persisted status as it was, so a scan is
\* only ever executed from another phase.
C7_SkipRunningOrCompleted ==
    (last.kind = "reconcile" /\ last.phaseBefore \in {"Running", "Completed"}) =>
        /\ ~last.executed
        /\ scan.status = last.statusBefore

\* A Completed scan with its results has been reconciled again and skipped.
C7_Witness ==
    /\ last.kind = "reconcile" /\ last.outcome = "skipped"
    /\ last.phaseBefore = "Completed"
    /\ scan.status.phase = "Completed" /\ scan.status.total > 0

\* The status carries the condition ScanComplete with these values.
HasCondition(status, st, reason, message) ==
    \E i \in 1..Len(status.conditions) :
        status.conditions[i] = Condition("ScanComplete", st, reason, message)

\* C8: when scan execution fails in a reconcile, the persisted phase becomes
\* Failed with the condition ScanComplete/False/ScanFailed and the error as
\* message, a requeue after 5 minutes is requested, and a reconcile that gets
\* as far as the phase test of a Failed scan executes it again.
C8_FailureRecordedAndRetried ==
    /\ (last.kind = "reconcile" /\ last.outcome = "scanFailed") =>
        /\ scan.status.phase = "Failed"
        /\ HasCondition(scan.status, "False", "ScanFailed", last.scanErr)
        /\ last.requeueAfter = "5m"
    /\ (last.kind = "reconcile" /\ last.phaseBefore = "Failed"
            /\ last.outcome \in {"skipped", "crashed", "scanFailed", "scanSucceeded"}) =>
        last.executed

\* C9: after a successful scan execution the persisted status has phase
\* Completed, the score, counts and severity buckets of the result's summary,
\* the condition ScanComplete/True, the last-run time, and the next scheduled
\* run time when the scan has a schedule.
C9_StatusAfterSuccess ==
    (last.kind = "reconcile" /\ last.outcome = "scanSucceeded") =>
        /\ scan.status.phase = "Completed"
        /\ scan.status.score = last.summary.Score
        /\ scan.status.total = last.summary.TotalChecks
        /\ scan.status.passed = last.summary.PassedChecks
        /\ scan.status.failed = last.summary.FailedChecks
        /\ \A k \in Severities :
            scan.status.findings[k] = last.summary.FindingsBySeverity[k]
        /\ \E i \in 1..Len(scan.status.conditions) :
            /\ scan.status.conditions[i].type = "ScanComplete"
            /\ scan.status.conditions[i].status = "True"
        /\ scan.status.lastScanTimeSet
        /\ (scan.spec.schedule # "" => scan.status.nextScanTimeSet)

\* A scheduled scan has completed and a later reconcile has skipped it.
ScheduledCompletedSkipped ==
    /\ scan.exists /\ ~scan.deleting
    /\ scan.spec.schedule # ""
    /\ scan.status.phase = "Completed"
    /\ last.kind = "reconcile" /\ last.outcome = "skipped"

\* C10: a scheduled scan that has completed is eventually executed again
\* without a reset from outside (unless it is reset or deleted meanwhile);
\* an unscheduled scan is not requeued after it succeeded.
C10_ScheduledScanRecurs ==
    /\ [](  (last.kind = "reconcile" /\ last.outcome = "scanSucceeded"
                /\ ~last.returnedErr /\ scan.spec.schedule = "")
            => last.requeueAfter = "none")
    /\ ScheduledCompletedSkipped ~>
            (\/ (last.kind = "reconcile" /\ last.executed)
             \/ ~scan.exists \/ scan.deleting
             \/ scan.status.phase \in {"", "Pending"})

\* uploadToSaaS got past its gates in the last reconcile.
DeliveryAttempted == last.kind = "reconcile" /\ last.delivery.attempted

\* C11: result delivery is attempted only after the status has been persisted
\* as Completed, and only when the scan definition enables it and a delivery
\* client is configured; however the secret lookup, the license validation
\* or the upload ends, the persisted phase stays Completed and the reconcile
\* returns what it returns with delivery disabled: no error, and the requeue
\* of scheduleNext.
C11_DeliveryNeverFailsScan ==
    DeliveryAttempted =>
        /\ last.outcome = "scanSucceeded"
        /\ scan.status = StatusFromResult([last.statusBefore EXCEPT !.phase = "Running"],
                                          last.summary)
        /\ scan.status.phase = "Completed"
        /\ scan.spec.saas.set /\ scan.spec.saas.enabled
        /\ ~saas.nil
        /\ ~last.returnedErr
        /\ last.requeueAfter = scheduleNext(scan)

\* A delivery that failed at the upload, after the license was validated.
C11_Witness ==
    /\ DeliveryAttempted
    /\ last.delivery.result = "uploadRejected"
    /\ scan.status.phase = "Completed"

\* C15: no execution reads the Data of a Secret.
C15_NoSecretDataRead ==
    ~(last.kind = "reconcile" /\ last.delivery.secretDataRead)

\* The scan definition is marked for deletion, or is gone.
Deleted == scan.deleting \/ ~scan.exists

\* C12: a reconcile of a scan definition marked for deletion releases the
\* finalizer (after its cleanup step); from the moment the definition is
\* marked, no reconcile sets the phase to Running, executes a scan or writes
\* the status, and the mark is never lifted; and whenever a reconcile has set
\* the phase to Running, the finalizer is in place.
C12_DeletionFinalizes ==
    /\ [](last.kind = "reconcile" /\ last.outcome = "finalized" =>
            ~scan.finalizer /\ ~last.executed)
    /\ [][Deleted =>
            /\ scan'.status = scan.status
            /\ scan'.deleting \/ ~scan'.exists
            /\ ~(last'.kind = "reconcile" /\ last'.executed)]_vars
    /\ [](last.kind = "reconcile" /\ last.executed => scan.finalizer)

\* A definition deleted after its scan completed: the finalizer was released
\* and the status is as it was.
C12_Witness ==
    /\ last.kind = "reconcile" /\ last.outcome = "finalized"
    /\ last.phaseBefore = "Completed"
    /\ ~scan.exists /\ ~scan.finalizer
    /\ scan.status.phase = "Completed"

\* An evaluation holds the read lock and copies the table.
Copying(e) == pc[e] = "copying"

\* C13, as amended: any number of evaluations may copy the module table at the
\* same time, and a load excludes exactly that: while a load holds the lock
\* no evaluation copies the table and none holds the read lock, an evaluation
\* that is copying when the load arrives finishes its copy before the load
\* begins, and one that calls Evaluate during the load takes the read lock
\* only after the load has released the lock.
C13_LoadExcludesTableReaders ==
    /\ [](LoadInProgress => mu.readers = {} /\ \A e \in Evaluators : ~Copying(e))
    /\ [](\A e \in Evaluators : Copying(e) <=> e \in mu.readers)
    /\ [][\A e \in Evaluators :
            (pc[e] = "rlock" /\ pc'[e] = "copying") =>
                ~LoadInProgress /\ mu.writer = "none"]_vars
    /\ [][\A l \in Loaders :
            (pc[l] = "drain" /\ pc'[l] = "loading") =>
                \A e \in Evaluators : ~Copying(e)]_vars

\* Two evaluations copy the table together, after a call that arrived while
\* a load held the lock.
C13_Witness ==
    /\ \A e \in Evaluators : Copying(e)
    /\ \E e \in Evaluators : calls[e].duringLoad

\* C13, as stated: while a load is in progress no evaluation is in progress.
C13_LoadExcludesEvaluations ==
    LoadInProgress => \A e \in Evaluators : pc[e] \notin {"copying", "evaluating"}

\* C14: no load stores a malformed source, a load given one returns an error,
\* and an evaluation over the modules loaded returns no error.
C14_MalformedSourceRejected ==
    /\ table \cap BrokenModules = {}
    /\ \A l \in Loaders :
        (calls[l].done /\ calls[l].arg \in {"mixed", "broken"}) => calls[l].err
    /\ \A e \in Evaluators : calls[e].done => ~calls[e].err

\* The findings of the check applied, of one id and status.
RetWith(id, status) ==
    SelectSeq(ret.findings, LAMBDA f : f.id = id /\ f.status = status)

\* A ClusterRoleBinding to cluster-admin not named with the system: prefix.
CustomAdminBinding(b) == b.roleRef.name = "cluster-admin" /\ b.name \notin SystemPrefixedNames

\* <<binding, subject>> for every subject of every such binding, in order.
BoundAdmins(bindings) ==
    Flatten([i \in 1..Len(bindings) |->
        IF CustomAdminBinding(bindings[i])
        THEN [j \in 1..Len(bindings[i].subjects) |->
                <<bindings[i].name, bindings[i].subjects[j].name>>]
        ELSE <<>>])

Wildcarded(r) ==
    \E i \in 1..Len(r.rules) :
        \E field \in {r.rules[i].verbs, r.rules[i].resources, r.rules[i].apiGroups} :
            \E k \in 1..Len(field) : field[k] = "*"

\* The number of findings returned about a resource.
FindingsAbout(res) == Len(SelectSeq(ret.findings, LAMBDA f : f.res = res))

\* C17: for every Role and ClusterRole not named with the system: prefix the
\* wildcard check returns one finding when a rule of it has "*" among its
\* verbs, resources or API groups, and none otherwise.
C17_WildcardFindings ==
    (args.kind = "wildcard" /\ ret.done) =>
        /\ \A i \in 1..Len(args.clusterRoles) :
            LET r == args.clusterRoles[i] IN
            ~HasSystemPrefix(r.name) =>
                FindingsAbout(<<"ClusterRole", r.name>>) = IF Wildcarded(r) THEN 1 ELSE 0
        /\ \A i \in 1..Len(args.roles) :
            LET r == args.roles[i] IN
            ~HasSystemPrefix(r.name) =>
                FindingsAbout(<<"Role", r.ns, r.name>>) = IF Wildcarded(r) THEN 1 ELSE 0

\* The non-system namespaces in scope, and those of them holding a policy.
UserNamespaces == {args.nsList[i] : i \in 1..Len(args.nsList)} \ SystemNamespaces

CoveredNamespaces == UserNamespaces \cap args.covered

\* The severity the bands give covered out of total.
BandSeverity(covered, total) ==
    CASE covered * 100 < 25 * total -> "critical"
      [] covered * 100 < 50 * total -> "high"
      [] covered * 100 < 75 * total -> "medium"
      [] covered < total -> "low"
      [] OTHER -> "info"

\* C18: the coverage finding reports covered/total over the non-system
\* namespaces in scope, its severity follows the bands (<25 critical, <50
\* high, <75 medium, <100 low), and it is a pass exactly at 100.
C18_CoverageBands ==
    (args.kind = "coverage" /\ ret.done /\ UserNamespaces # {}) =>
        LET cov == SelectSeq(ret.findings, LAMBDA f : f.id = "NET-002")
            covered == Cardinality(CoveredNamespaces)
            total == Cardinality(UserNamespaces)
        IN  /\ Len(cov) = 1
            /\ cov[1].det = <<covered, total>>
            /\ (cov[1].status = "PASS") <=> (covered = total)
            /\ covered < total => cov[1].sev = BandSeverity(covered, total)

\* C19: with no user namespace in scope the network analyzer returns a pass
\* coverage finding.
C19_NoUserNamespaceIsPass ==
    (args.kind = "coverage" /\ ret.done /\ UserNamespaces = {}) =>
        Len(RetWith("NET-002", "PASS")) = 1

\* A rule field that holds no rule: it is absent, or an empty list.
NoRules(field) == field \in {"absent", "empty"}

GivenContainers == args.spec.init \o args.spec.containers \o args.spec.ephemeral

\* The containers named, in order, by the findings of one rule.
NamedBy(id) ==
    LET fs == SelectSeq(ret.findings, LAMBDA f : f.id = id)
    IN  [i \in 1..Len(fs) |-> fs[i].det]

\* The names of the given containers that satisfy V, in order.
NamesWhere(V(_)) ==
    LET cs == SelectSeq(GivenContainers, V) IN [i \in 1..Len(cs) |-> cs[i].name]

\* allowPrivilegeEscalation is explicitly false.
EscalationDenied(c) == c.sc /\ c.ape = "false"

\* C21: the escalation check returns a fail finding for a container exactly
\* when its allowPrivilegeEscalation is not explicitly false: no security
\* context, the field unset, or the field true.
C21_EscalationMustBeFalse ==
    (args.kind = "podSpec" /\ ret.done) =>
        /\ NamedBy("PSS-R004") = NamesWhere(LAMBDA c : ~EscalationDenied(c))
        /\ \A i \in 1..Len(ret.findings) :
            ret.findings[i].id = "PSS-R004" =>
                ret.findings[i].status = "FAIL" /\ ret.findings[i].sev = "medium"

\* The four kinds of container were checked together: no security context,
\* field unset, field true, field false.
C21_Witness ==
    /\ args.kind = "podSpec" /\ ret.done
    /\ \E c \in Range(GivenContainers) : ~c.sc
    /\ \E c \in Range(GivenContainers) : c.sc /\ c.ape = "unset"
    /\ \E c \in Range(GivenContainers) : c.sc /\ c.ape = "true"
    /\ \E c \in Range(GivenContainers) : c.sc /\ c.ape = "false"
    /\ Len(NamedBy("PSS-R004")) = 3

\* The findings of checkPodSpec with the ids of one rule.
OfRule(ids) == SelectSeq(ret.findings, LAMBDA f : f.id \in ids)

\* C25: each container-level rule is applied to every container, init then
\* regular then ephemeral, and returns one finding per violating container;
\* the findings of checkPodSpec are the findings of each rule one after the
\* other, none suppressing another.
C25_EveryContainerEveryRule ==
    (args.kind = "podSpec" /\ ret.done) =>
        /\ NamedBy("PSS-B001") = NamesWhere(LAMBDA c : c.sc /\ c.privileged = "true")
        /\ NamedBy("PSS-R004") = NamesWhere(LAMBDA c : ~EscalationDenied(c))
        /\ NamedBy("PSS-R003") = NamesWhere(LAMBDA c : ~(c.sc /\ c.caps /\ "ALL" \in Range(c.capDrop)))
        /\ NamedBy("PSS-R005") = NamesWhere(LAMBDA c : ~(c.sc /\ c.rorfs = "true"))
        /\ ret.findings =
                OfRule({"PSS-B001"}) \o OfRule({"PSS-B002", "PSS-B003", "PSS-B004"})
                \o OfRule({"PSS-B005"}) \o OfRule({"PSS-B006"}) \o OfRule({"PSS-B007"})
                \o OfRule({"PSS-B008"}) \o OfRule({"PSS-R001"}) \o OfRule({"PSS-R002"})
                \o OfRule({"PSS-R003"}) \o OfRule({"PSS-R004"}) \o OfRule({"PSS-R005"})

\* Two containers violate the privileged rule, among them the ephemeral one,
\* and the init container violates another rule.
C25_Witness ==
    /\ args.kind = "podSpec" /\ ret.done
    /\ Len(args.spec.init) = 1 /\ ~args.spec.init[1].sc
    /\ Len(args.spec.ephemeral) = 1 /\ args.spec.ephemeral[1].privileged = "true"
    /\ Len(NamedBy("PSS-B001")) = 2
    /\ Len(NamedBy("PSS-R004")) >= 2

\* The place of a finding's check in the dispatch order of a full scan.
DispatchRank(f) ==
    CASE f.cat = "rbac" -> 2 [] f.cat = "network" -> 3 [] f.cat = "pss" -> 4 [] OTHER -> 1

\* The findings of a list that a threshold keeps: the Pass findings and those
\* whose severity is at least the threshold; all of them without threshold.
KeptUnder(findings, threshold) ==
    IF threshold = "" THEN findings
    ELSE SelectSeq(findings, LAMBDA f :
            f.status = "PASS" \/ SeverityRank(f.sev) >= SeverityRank(threshold))

\* The counters of a summary are those of a list of findings.
SummaryOf(findings, summary) ==
    /\ summary.TotalChecks = Len(findings)
    /\ summary.WarningCount = NumWithStatus(findings, "WARNING")
    /\ summary.ErrorCount = NumWithStatus(findings, "ERROR")
    /\ summary.SkippedCount = NumWithStatus(findings, "SKIPPED")
    /\ ScoreAsSpecified(findings, summary)
    /\ \A k \in SevKeys :
        summary.FindingsBySeverity[k] =
            Len(SelectSeq(findings, LAMBDA f : f.sev = k /\ f.status \in {"FAIL", "WARNING"}))

\* C22: every result a successful Run returns was stamped, summarised and
\* filtered in that order: every finding has a timestamp, the run's end time
\* when it was produced without one; every Pass finding produced is present
\* whatever the threshold; the findings keep the dispatch order; and Summary
\* is the summary of the findings present in the result.
C22_FinalizedResult ==
    (run.valid /\ run.err = "") =>
        /\ \A i \in 1..Len(run.findings) : run.findings[i].ts # 0
        /\ run.findings =
            KeptUnder([i \in 1..Len(run.produced) |->
                        IF run.produced[i].ts = 0
                        THEN [run.produced[i] EXCEPT !.ts = EndTs]
                        ELSE run.produced[i]], run.config.threshold)
        /\ NumWithStatus(run.findings, "PASS") = NumWithStatus(run.produced, "PASS")
        /\ \A i, j \in 1..Len(run.findings) :
            i < j => DispatchRank(run.findings[i]) <= DispatchRank(run.findings[j])
        /\ SummaryOf(run.findings, run.summary)

\* A full scan under a threshold that dropped a finding, kept a Pass finding
\* below the threshold and returned a finding produced without a timestamp.
C22_Witness ==
    /\ run.valid /\ run.err = "" /\ run.config.scanType = "full"
    /\ run.config.threshold = "high"
    /\ Len(run.findings) < Len(run.produced)
    /\ \E i \in 1..Len(run.findings) :
        /\ run.findings[i].status = "PASS"
        /\ SeverityRank(run.findings[i].sev) < SeverityRank("high")
    /\ \E i \in 1..Len(run.produced) : run.produced[i].ts = 0
    /\ \E i \in 1..Len(run.findings) : run.findings[i].ts = EndTs
    /\ {DispatchRank(run.findings[i]) : i \in 1..Len(run.findings)} = 1..4

\* The findings of one check among those a run produced.
ProducedBy(name) == SelectSeq(run.produced, LAMBDA f : f.cat = name)

\* The analyzers registered, in the order a full scan names them.
RegisteredInOrder == SelectSeq(AnalyzerNames, LAMBDA n : n \in registered)

\* C23: in a full scan an analyzer that returns an error does not keep the
\* analyzers after it from being invoked (order rbac, network, pss); the result
\* holds the findings of rule evaluation and of every analyzer that succeeded
\* and no finding of the one that failed.  In a single-analyzer scan the same
\* error makes Run fail.
C23_FullScanSkipsFailedAnalyzer ==
    /\ (run.valid /\ run.config.scanType = "full" /\ run.err # "resolving namespaces") =>
        /\ run.err = ""
        /\ run.dispatch = <<"opa">> \o RegisteredInOrder
        /\ \A n \in {"rbac", "network", "pss"} :
            ProducedBy(n) =
                IF n \in registered /\ ~AnalyzerError(n)
                THEN Analyze(world, n, run.namespaces).findings
                ELSE <<>>
        /\ run.produced =
                ProducedBy("cis") \o ProducedBy("rbac") \o ProducedBy("network")
                \o ProducedBy("pss")
        /\ ProducedBy("cis") = runOPAPolicies(world, run.engine, run.namespaces).findings
    /\ (run.valid /\ SingleAnalyzerFails /\ ~NamespaceResolutionFails) =>
        /\ run.err \in {"RBAC analysis", "network analysis", "PSS check"}
        /\ run.findings = <<>>
        /\ run.dispatch = <<run.config.scanType>>

\* A full scan whose rbac analyzer failed and whose result holds findings of
\* rule evaluation, of the network analyzer and of the pss check.
C23_Witness ==
    /\ run.valid /\ run.config.scanType = "full" /\ run.err = ""
    /\ "rbac" \in registered /\ AnalyzerError("rbac")
    /\ run.dispatch = <<"opa", "rbac", "network", "pss">>
    /\ ProducedBy("rbac") = <<>>
    /\ ProducedBy("cis") # <<>> /\ ProducedBy("network") # <<>> /\ ProducedBy("pss") # <<>>

\* The values of the result set given that are objects or strings, in the
\* order they are walked.
Convertible ==
    LET e == args.rs[1]
        vs == IF e.order = "fwd" THEN e.items ELSE Reverse(e.items)
    IN  IF e.shape \in {"list", "map"}
        THEN SelectSeq(vs, LAMBDA v : v.shape \in {"object", "string"})
        ELSE <<>>

\* The severity a violation object asks for, when it names one of the five.
AskedSeverity(v) ==
    IF ~v.hasSeverity THEN ""
    ELSE IF v.severity \in {"critical", "high", "medium", "low", "info"} THEN v.severity
    ELSE IF v.severity = "HIGH" THEN "high" ELSE ""

\* C24: converting the violation values of the rule engine never fails: an
\* object, in a list or in a map, becomes one check result with its fields and
\* severity medium when it has none; a bare string becomes one medium result
\* titled 'Policy Violation'; any other value is skipped.  Every finding of
\* rule evaluation has status fail and one of the five severities.
C24_ViolationsConverted ==
    (args.kind = "violations" /\ ret.done) =>
        /\ ~ret.err
        /\ Len(ret.checks) = Len(Convertible)
        /\ \A i \in 1..Len(Convertible) :
            LET v == Convertible[i]
                cr == ret.checks[i]
            IN  /\ ~cr.Passed
                /\ v.shape = "object" =>
                    /\ cr.ID = v.id /\ cr.Category = v.category
                    /\ cr.Severity = IF AskedSeverity(v) = "" THEN "medium"
                                     ELSE AskedSeverity(v)
                /\ v.shape = "string" =>
                    /\ cr.Title = "Policy Violation" /\ cr.Message = v.msg
                    /\ cr.Severity = "medium"
        /\ Len(ret.findings) = Len(ret.checks)
        /\ \A i \in 1..Len(ret.findings) :
            /\ ret.findings[i].status = "FAIL"
            /\ ret.findings[i].sev \in {"critical", "high", "medium", "low", "info"}
            /\ ret.findings[i].id = ret.checks[i].ID

\* A map holding an object without severity and a number: one result, medium.
C24_Witness ==
    /\ args.kind = "violations" /\ ret.done
    /\ args.rs[1].shape = "map" /\ Len(args.rs[1].items) = 2
    /\ \E i \in 1..2 : args.rs[1].items[i].shape = "number"
    /\ \E i \in 1..2 : args.rs[1].items[i].shape = "object" /\ ~args.rs[1].items[i].hasSeverity
    /\ Len(ret.findings) = 1 /\ ret.findings[1].sev = "medium"

\* The persisted phase of the scan definition is Running.
PersistedRunning == scan.exists /\ ~scan.deleting /\ scan.status.phase = "Running"

\* C26: under fair scheduling of reconciles a scan definition whose persisted
\* phase is Running eventually has persisted phase Completed or Failed (unless
\* it is deleted or reset from outside meanwhile), also after a failed status
\* write or a restart of the controller during the scan.
C26_RunningEventuallyEnds ==
    PersistedRunning ~>
        (\/ scan.status.phase \in {"Completed", "Failed"}
         \/ ~scan.exists \/ scan.deleting
         \/ scan.status.phase \in {"", "Pending"})

\* The conditions of type ScanComplete in the persisted status.
ScanCompleteConditions ==
    SelectSeq(scan.status.conditions, LAMBDA c : c.type = "ScanComplete")

\* C27: in every persisted status, after any sequence of reconciles, the
\* phase is unset, Pending, Running, Completed or Failed; Completed and Failed
\* are only written over a persisted Running; there is at most one condition
\* of type ScanComplete; it has status True in phase Completed and status
\* False in phase Failed.
C27_StatusInvariants ==
    /\ scan.status.phase \in {"", "Pending", "Running", "Completed", "Failed"}
    /\ Len(ScanCompleteConditions) <= 1
    /\ scan.status.phase = "Completed" =>
        (Len(ScanCompleteConditions) = 1 /\ ScanCompleteConditions[1].status = "True")
    /\ scan.status.phase = "Failed" =>
        (Len(ScanCompleteConditions) = 1 /\ ScanCompleteConditions[1].status = "False")
    /\ last.kind = "reconcile" =>
        /\ \A i \in 1..Len(last.phases) :
            last.phases[i] \in {"Completed", "Failed"} =>
                (i > 1 /\ last.phases[i - 1] = "Running")
        /\ (last.phases # <<>> => scan.status.phase = last.phases[Len(last.phases)])
        /\ (last.phases = <<>> => scan.status.phase = last.phaseBefore)

\* A scan that had completed was reset, executed again and failed: its one
\* ScanComplete condition went from True to False.
C27_Witness ==
    /\ last.kind = "reconcile" /\ last.phases = <<"Running", "Failed">>
    /\ \E i \in 1..Len(last.statusBefore.conditions) :
        last.statusBefore.conditions[i].status = "True"
    /\ scan.status.phase = "Failed"
    /\ Len(ScanCompleteConditions) = 1

\* A load has made some of its assignments to the table and has more to make.
MidLoad(l) == pc[l] = "loading" /\ calls[l].step > 0

\* C28: an evaluation works on an atomic snapshot of the module table: the
\* table it copies is the table as it was entirely before or entirely after
\* each load, never with only some of the files of one load stored, and no
\* load changes the copy an evaluation has taken.
C28_AtomicSnapshot ==
    /\ [][\A e \in Evaluators :
            (pc[e] = "copying" /\ pc'[e] = "evaluating") =>
                /\ calls'[e].snapshot = table
                /\ \A l \in Loaders : ~MidLoad(l) /\ pc[l] # "loaded"]_vars
    /\ [][\A e \in Evaluators :
            (pc[e] = "evaluating" /\ pc'[e] = "evaluating") =>
                calls'[e].snapshot = calls[e].snapshot]_vars
    /\ [][\A e \in Evaluators :
            (pc[e] = "evaluating" /\ pc'[e] = "idle") =>
                /\ calls'[e].snapshot = calls[e].snapshot
                /\ calls'[e].err = (calls[e].snapshot \cap BrokenModules # {})]_vars
    /\ [](\A l \in Loaders : pc[l] = "loaded" =>
            table = LoadBody(calls[l].before, calls[l]).modules)

\* A load is half-way through a bundle while one evaluation waits for the
\* read lock and another evaluates a copy taken before the load.
C28_Witness ==
    /\ \E l \in Loaders : MidLoad(l) /\ calls[l].op = "AddBundle"
    /\ \E e \in Evaluators : pc[e] = "rlock"
    /\ \E e \in Evaluators : pc[e] = "evaluating" /\ calls[e].snapshot # table
                                /\ calls[e].snapshot # {}

\* C29: a load that returns an error leaves the module table as it found it,
\* so ModuleCount is unchanged: an invalid inline source, a missing directory,
\* or a read error part-way through the walk.
C29_FailedLoadChangesNothing ==
    \A l \in Loaders :
        (pc[l] = "loaded" /\ calls[l].err) =>
            /\ table = calls[l].before
            /\ ModuleCount(table) = ModuleCount(calls[l].before)

\* The scope Run resolves: the namespaces asked for, or else the namespaces
\* of the cluster that are not system namespaces.
ResolvedScope ==
    IF args.requested # <<>> THEN Range(args.requested)
    ELSE Range(args.nsList) \ {"kube-system", "kube-public", "kube-node-lease"}

\* C30: every namespace-bound finding of the network analyzer is for a
\* namespace of the scope Run resolved and passed to it; when no namespace was
\* asked for, no finding concerns a system namespace, also when the scope
\* resolved is empty.
C30_FindingsWithinScope ==
    (args.kind = "scope" /\ ret.done) =>
        \A i \in 1..Len(ret.findings) :
            ret.findings[i].ns # "" => ret.findings[i].ns \in ResolvedScope

====
